---------------------------- MODULE Spec2Model ----------------------------
(***************************************************************************)
(* Model of the Elektor-bus shutter node (shutter.c with hardware.c):      *)
(* the motor state machine with its tick-driven delay, the cooperative     *)
(* main loop with the tick ISR interleaved at every shared access, the     *)
(* schedule engine and the weekly clock.                                   *)
(*                                                                         *)
(* Seventeen specifications share the variables:                           *)
(*   Spec       main loop, tick ISR and motor state machine;               *)
(*   SpecSched  clock at 10 s resolution, TIME messages, schedule table    *)
(*              and process_schedule;                                      *)
(*   SpecClock  the 2 ms ISR, set_current_fulltime and the byte-wise       *)
(*              reads of the 16-bit counters on the 8-bit target;          *)
(*   SpecMsg    the boot and the dispatch of one bus message after         *)
(*              another;                                                   *)
(*   SpecReply  the answered requests with the tick, the motor step and    *)
(*              the sensor step of the main loop in between;               *)
(*   SpecSync   the time synchronisation with the catch-up run;            *)
(*   SpecSensor the temperature request machinery, with fairness of the    *)
(*              tick and of the main loop;                                 *)
(*   SpecLoop   the main loop pass by pass, one step per handler;          *)
(*   SpecRecv   the receive path of the main loop for every kind of        *)
(*              message;                                                   *)
(*   SpecFrame  the frame format of the bus: encoder, wire and decoder;    *)
(*   SpecRun    main loop and tick with fairness of both;                  *)
(*   SpecKey    the key readers over every sequence of readings;           *)
(*   SpecRound  schedule updates followed by schedule queries;             *)
(*   SpecWeek   the schedule over whole weeks of a set clock;              *)
(*   SpecBase   the time base over a whole 10 s period of the ISR;         *)
(*   SpecTrig   calls of trigger_action with tick and motor step;          *)
(*   SpecData   the message handlers that touch the persistent data.       *)
(***************************************************************************)
EXTENDS Integers, Sequences, FiniteSets

VARIABLES
  \* ---- ISR <-> main loop communication (shutter.c 109-124, hardware.h)
  wakeup_main, one_second_event, key_s2_event, key_s3_event,
  motor_action_delay, motor_action_event,
  \* ---- main loop state (shutter.c 132-140, 237)
  pc, motor_state, last_action, shutter_state, newdelay,
  \* ---- output port bits (shutter.c 66-69)
  MOTOR_on, MOTOR_down,
  \* ---- history of the motor steps (observers, not program state)
  h_off_age, h_dir_age, h_gap_dir, h_gap_on, h_ran, h_ready, h_cut,
  h_on_age, h_stale,
  \* ---- weekly clock (hardware.c 63-68, hardware.h)
  current_time, current_clock, time_has_been_set,
  \* ---- schedule engine (shutter.c 133) and its EEPROM table
  schedule_last_tfound, schedule,
  \* ---- SpecSched: phase of the 10 s housekeeping, history of the calls
  ten_due, h_run, h_call, h_fired,
  \* ---- SpecClock: the ISR prescaler (hardware.c 159), the position and
  \* the partial result of a get_current_time in progress, the answer of the
  \* last time query, the observers of the read and of the last time set
  two_ms_counter, rd_pc, rd_order, rd_part, fr_val, rd_val, rd_held, h_isr,
  h_set,
  \* ---- sensor delay counter and event flag (shutter.c 122-124)
  sensor_action_delay, sensor_action_event,
  \* ---- SpecMsg: the sensor control block (shutter.c 144-155),
  \* config.debug_flags, whether main's setup has run, the messages sent by
  \* the last step, and the observers: the message handled by the last step,
  \* the course of the sensor request, the catch-up run of the motor
  sensor_ctrl, debug_flags, booted, outbox, h_req, h_sens, h_sync,
  \* ---- SpecLoop: the counter of the one-second events (shutter.c 835),
  \* the receive buffer of the link layer with its owner, and the observers:
  \* the handlers run in the current pass of the main loop, the releases of
  \* the message fetched last, the ticks counted
  ten_seconds_counter, rx_buf, rx_held, h_pass, h_rel, h_ticks,
  \* ---- SpecFrame: the message to send, the octets on the wire, what the
  \* receiver made of them, the position of the exchange, the frames put on
  \* the wire
  tx_id, tx_pay, wire, rx_frame, fr_pc, h_txs,
  \* ---- SpecKey: the key under test, the debounce registers (the statics
  \* of read_key_s2 and read_key_s3, hardware.c 87, 98), the value returned
  \* last, and the observers: the depressed readings in a row, whether a
  \* released reading has been taken since reset
  key_sel, key_reg, key_ret, h_dep, h_up,
  \* ---- SpecWeek: the weekly wraps of the clock since it was set
  h_weeks,
  \* ---- SpecTrig: the calls of trigger_action since the last motor step
  \* (their actions, in order), with a "tick" where ticks came in between
  h_trig

motorVars == <<wakeup_main, one_second_event, key_s2_event, key_s3_event,
               motor_action_delay, motor_action_event,
               pc, motor_state, last_action, shutter_state, newdelay,
               MOTOR_on, MOTOR_down>>
motorHist == <<h_off_age, h_dir_age, h_gap_dir, h_gap_on, h_ran, h_ready,
               h_cut, h_on_age, h_stale>>

timeVars  == <<current_time, current_clock, time_has_been_set>>
schedVars == <<schedule_last_tfound, schedule>>
schedHist == <<ten_due, h_run, h_call, h_fired>>

clockVars == <<two_ms_counter, rd_pc, rd_order, rd_part, fr_val, rd_val,
               rd_held, h_isr, h_set>>

sensVars  == <<sensor_action_delay, sensor_action_event>>
msgVars   == <<sensor_ctrl, debug_flags, booted, outbox, h_req, h_sens,
               h_sync>>

loopVars  == <<ten_seconds_counter, rx_buf, rx_held, h_pass, h_rel,
               h_ticks>>

frameVars == <<tx_id, tx_pay, wire, rx_frame, fr_pc, h_txs>>

keyVars == <<key_sel, key_reg, key_ret, h_dep, h_up>>

\* The variables the specifications before SpecLoop leave alone.
auxVars == <<loopVars, frameVars, keyVars, h_weeks, h_trig>>

vars == <<motorVars, motorHist, timeVars, schedVars, schedHist, clockVars,
          sensVars, msgVars, auxVars>>

---------------------------------------------------------------------------
\* Bounds.  The delays are counted in 10 ms ticks; the model scales
\* MILLISEC(200) and MILLISEC(25000) down to a few ticks.
SettleTicks == 2
TravelTicks == 3

---------------------------------------------------------------------------
\* enum action_values
action_none     == "action_none"
action_up       == "action_up"
action_down     == "action_down"
action_up_key   == "action_up_key"
action_down_key == "action_down_key"

\* enum motor_state_values
motor_state_off        == "off"
motor_state_pre_off    == "pre_off"
motor_state_pre_off2   == "pre_off2"
motor_state_pre_off3   == "pre_off3"
motor_state_pre_up     == "pre_up"
motor_state_pre_up2    == "pre_up2"
motor_state_up         == "up"
motor_state_up_ready   == "up_ready"
motor_state_pre_down   == "pre_down"
motor_state_pre_down2  == "pre_down2"
motor_state_down       == "down"
motor_state_down_ready == "down_ready"

MotorStates == {motor_state_off, motor_state_pre_off, motor_state_pre_off2,
                motor_state_pre_off3, motor_state_pre_up, motor_state_pre_up2,
                motor_state_up, motor_state_up_ready, motor_state_pre_down,
                motor_state_pre_down2, motor_state_down, motor_state_down_ready}

PreStates   == {motor_state_pre_off, motor_state_pre_up, motor_state_pre_down}
Pre2States  == {motor_state_pre_off2, motor_state_pre_up2,
                motor_state_pre_down2}
OnStates    == {motor_state_up, motor_state_down}
ReadyStates == {motor_state_up_ready, motor_state_down_ready}

Min(a, b) == IF a < b THEN a ELSE b

---------------------------------------------------------------------------
\* Mutant: a toggle key pressed while the state machine is off always
\* resolves to its direction.
resolve_action_fromoff(action) ==
  CASE action = action_up_key ->
         IF last_action = action_up /\ motor_state # motor_state_off
           THEN action_none ELSE action_up
    [] action = action_down_key ->
         IF last_action = action_down /\ motor_state # motor_state_off
           THEN action_none ELSE action_down
    [] OTHER -> action

\* Mutant: a toggle key always resolves to its own direction.
resolve_action_notoggle(action) ==
  CASE action = action_up_key   -> action_up
    [] action = action_down_key -> action_down
    [] OTHER -> action

\* trigger_action: the toggle keys resolve against last_action (goto again),
\* then motor_state is overwritten, last_action committed and the delay
\* armed with one tick.
resolve_action(action) ==
  CASE action = action_up_key ->
         IF last_action = action_up THEN action_none ELSE action_up
    [] action = action_down_key ->
         IF last_action = action_down THEN action_none ELSE action_down
    [] OTHER -> action

\* Mutant: the down trigger enters the sequence at the direction step.
trigger_state_skipoff(a) ==
  CASE a = action_none -> motor_state_pre_off
    [] a = action_up   -> motor_state_pre_up
    [] a = action_down -> motor_state_pre_down2

trigger_state(a) ==
  CASE a = action_none -> motor_state_pre_off
    [] a = action_up   -> motor_state_pre_up
    [] a = action_down -> motor_state_pre_down

\* Mutant: a trigger during a powered run is held back (state untouched).
trigger_action_deferred(action) ==
  /\ motor_state' = IF MOTOR_on /\ motor_state \in ReadyStates
                      THEN motor_state
                      ELSE trigger_state(resolve_action(action))
  /\ last_action' = resolve_action(action)
  /\ motor_action_delay' = IF MOTOR_on /\ motor_state \in ReadyStates
                             THEN motor_action_delay ELSE 1

\* Mutant: the trigger leaves the delay alone (no motor step is forced).
trigger_action_unarmed(action) ==
  /\ motor_state' = trigger_state(resolve_action(action))
  /\ last_action' = resolve_action(action)
  /\ motor_action_delay' = motor_action_delay

\* Mutant: a trigger that finds a target pending keeps it (first wins).
trigger_action_keep(action) ==
  /\ motor_state' = IF motor_state \in PreStates /\ motor_action_delay = 1
                      THEN motor_state
                      ELSE trigger_state(resolve_action(action))
  /\ last_action' = resolve_action(action)
  /\ motor_action_delay' = 1

trigger_action(action) ==
  /\ motor_state' = trigger_state(resolve_action(action))
  /\ last_action' = resolve_action(action)
  /\ motor_action_delay' = 1

\* What a trigger means for the run under way (observer).
RunUnderWay == MOTOR_on /\ motor_state \in ReadyStates
NoteTrigger == h_cut' = (h_cut \/ RunUnderWay)

---------------------------------------------------------------------------
\* One pass of the switch in motor_action for state st: the new state, the
\* port writes ("off", "on", "dir_up", "dir_down" or "none"), the new
\* shutter_state (-1: left alone, -2: flags cleared) and the delay.
motor_case(st) ==
  CASE st = motor_state_off ->
         [state |-> motor_state_off, write |-> "none", sh |-> -1, delay |-> 0]
    [] st = motor_state_pre_off ->
         [state |-> motor_state_pre_off2, write |-> "off", sh |-> -1,
          delay |-> SettleTicks]
    [] st = motor_state_pre_off2 ->
         [state |-> motor_state_pre_off3, write |-> "dir_up", sh |-> -1,
          delay |-> SettleTicks]
    [] st = motor_state_pre_off3 ->
         [state |-> motor_state_off, write |-> "none", sh |-> -2, delay |-> 0]
    [] st = motor_state_pre_up ->
         [state |-> motor_state_pre_up2, write |-> "off", sh |-> -1,
          delay |-> SettleTicks]
    [] st = motor_state_pre_up2 ->
         [state |-> motor_state_up, write |-> "dir_up", sh |-> -1,
          delay |-> SettleTicks]
    [] st = motor_state_up ->
         [state |-> motor_state_up_ready, write |-> "on", sh |-> 192,
          delay |-> TravelTicks]
    [] st = motor_state_up_ready ->
         [state |-> motor_state_pre_off, write |-> "none", sh |-> 32,
          delay |-> 0]
    [] st = motor_state_pre_down ->
         [state |-> motor_state_pre_down2, write |-> "off", sh |-> -1,
          delay |-> SettleTicks]
    [] st = motor_state_pre_down2 ->
         [state |-> motor_state_down, write |-> "dir_down", sh |-> -1,
          delay |-> SettleTicks]
    [] st = motor_state_down ->
         [state |-> motor_state_down_ready, write |-> "on", sh |-> 128,
          delay |-> TravelTicks]
    [] st = motor_state_down_ready ->
         [state |-> motor_state_pre_off, write |-> "none", sh |-> 47,
          delay |-> 0]

\* shutter_state after one case: assignment, or "&= 0b00111111".
shutter_after(sh, r) ==
  IF r.sh = -1 THEN sh ELSE IF r.sh = -2 THEN sh % 64 ELSE r.sh

\* The do-while of motor_action: the cases are run until one sets a delay or
\* the state is off.  No chain of delay-free cases is longer than two
\* (up_ready/down_ready -> pre_off, pre_off3 -> off), so three passes cover
\* the loop.  Result: final state, port values, shutter_state, delay, and
\* which cases ran.
motor_pass(m) ==
  LET r == motor_case(m.state) IN
  [state |-> r.state,
   on    |-> IF r.write = "on" THEN TRUE
             ELSE IF r.write = "off" THEN FALSE ELSE m.on,
   down  |-> IF r.write = "dir_down" THEN TRUE
             ELSE IF r.write = "dir_up" THEN FALSE ELSE m.down,
   sh    |-> shutter_after(m.sh, r),
   delay |-> r.delay,
   ran   |-> Append(m.ran, m.state),
   writes |-> IF r.write = "none" THEN m.writes ELSE Append(m.writes, r.write)]

motor_again(m) == m.delay = 0 /\ m.state # motor_state_off

motor_action ==
  LET m0 == [state |-> motor_state, on |-> MOTOR_on, down |-> MOTOR_down,
             sh |-> shutter_state, delay |-> 0, ran |-> <<>>, writes |-> <<>>]
      m1 == motor_pass(m0)
      m2 == IF motor_again(m1) THEN motor_pass(m1) ELSE m1
      m3 == IF motor_again(m2) THEN motor_pass(m2) ELSE m2
  IN  m3


---------------------------------------------------------------------------
\* The 10 ms tick: ticker_bottom as called from the timer ISR.  sec is
\* "clock % 100 = 0", k2 and k3 are the results of read_key_s2 and
\* read_key_s3; the ISR runs to completion (interrupts do not nest).
bool_or(a, b) == a \/ b

\* Mutant: the motor event is raised without waking the main loop.
ticker_bottom_silent(sec, k2, k3) ==
  /\ one_second_event' = bool_or(one_second_event, sec)
  /\ key_s2_event' = bool_or(key_s2_event, k2)
  /\ key_s3_event' = bool_or(key_s3_event, k3)
  /\ motor_action_delay' =
       IF motor_action_delay > 0 THEN motor_action_delay - 1 ELSE 0
  /\ motor_action_event' = bool_or(motor_action_event, motor_action_delay = 1)
  /\ sensor_action_delay' =
       IF sensor_action_delay > 0 THEN sensor_action_delay - 1 ELSE 0
  /\ sensor_action_event' = bool_or(sensor_action_event,
                                     sensor_action_delay = 1)
  /\ wakeup_main' = (wakeup_main \/ sec \/ (k2 /\ ~key_s2_event)
                       \/ (k3 /\ ~key_s3_event)
                       \/ sensor_action_delay = 1)

ticker_bottom(sec, k2, k3) ==
  /\ one_second_event' = bool_or(one_second_event, sec)
  /\ key_s2_event' = bool_or(key_s2_event, k2)
  /\ key_s3_event' = bool_or(key_s3_event, k3)
  /\ motor_action_delay' =
       IF motor_action_delay > 0 THEN motor_action_delay - 1 ELSE 0
  /\ motor_action_event' = bool_or(motor_action_event, motor_action_delay = 1)
  /\ sensor_action_delay' =
       IF sensor_action_delay > 0 THEN sensor_action_delay - 1 ELSE 0
  /\ sensor_action_event' = bool_or(sensor_action_event,
                                     sensor_action_delay = 1)
  /\ wakeup_main' = (wakeup_main \/ sec \/ (k2 /\ ~key_s2_event)
                       \/ (k3 /\ ~key_s3_event) \/ motor_action_delay = 1
                       \/ sensor_action_delay = 1)

\* The tick as Spec sees it: the clock and the debounced keys are inputs.
Tick ==
  /\ \E sec \in BOOLEAN, k2 \in BOOLEAN, k3 \in BOOLEAN :
        ticker_bottom(sec, k2, k3)
  /\ h_off_age' = Min(h_off_age + 1, SettleTicks)
  /\ h_dir_age' = Min(h_dir_age + 1, SettleTicks)
  /\ h_on_age' = IF MOTOR_on THEN Min(h_on_age + 1, TravelTicks)
                 ELSE h_on_age
  /\ UNCHANGED <<pc, motor_state, last_action, shutter_state, newdelay,
                 MOTOR_on, MOTOR_down, h_gap_dir, h_gap_on, h_ran, h_ready,
                 h_cut, h_stale>>
  /\ UNCHANGED <<timeVars, schedVars, schedHist, clockVars, msgVars,
                 auxVars>>

---------------------------------------------------------------------------
\* The main loop, one action per access to the variables shared with the ISR.

\* while (!wakeup_main) sleep;
MainWait ==
  /\ pc = "wait" /\ wakeup_main
  /\ pc' = "wake"
  /\ UNCHANGED <<wakeup_main, one_second_event, key_s2_event, key_s3_event,
                 motor_action_delay, motor_action_event, motor_state,
                 last_action, shutter_state, newdelay, MOTOR_on, MOTOR_down,
                 motorHist>>
  /\ UNCHANGED <<timeVars, schedVars, schedHist, clockVars>>
  /\ UNCHANGED <<sensVars, msgVars, auxVars>>

\* wakeup_main = 0;
MainWake ==
  /\ pc = "wake"
  /\ wakeup_main' = FALSE
  /\ pc' = "key_s2"
  /\ UNCHANGED <<one_second_event, key_s2_event, key_s3_event,
                 motor_action_delay, motor_action_event, motor_state,
                 last_action, shutter_state, newdelay, MOTOR_on, MOTOR_down,
                 motorHist>>
  /\ UNCHANGED <<timeVars, schedVars, schedHist, clockVars>>
  /\ UNCHANGED <<sensVars, msgVars, auxVars>>

\* if (key_s2_event) trigger_action (action_down_key);
KeyS2 ==
  /\ pc = "key_s2"
  /\ IF key_s2_event
       THEN /\ trigger_action(action_down_key)
            /\ NoteTrigger
            /\ pc' = "key_s2_clr"
       ELSE /\ pc' = "key_s3"
            /\ UNCHANGED <<motor_state, last_action, motor_action_delay, h_cut>>
  /\ h_stale' = (key_s2_event /\ key_s3_event)
  /\ UNCHANGED <<wakeup_main, one_second_event, key_s2_event, key_s3_event,
                 motor_action_event, shutter_state, newdelay, MOTOR_on,
                 MOTOR_down, h_off_age, h_dir_age, h_gap_dir, h_gap_on,
                 h_ran, h_ready, h_on_age>>
  /\ UNCHANGED <<timeVars, schedVars, schedHist, clockVars>>
  /\ UNCHANGED <<sensVars, msgVars, auxVars>>

\* Mutant: the S2 block clears its own event only.
KeyS2Clr_keepS3 ==
  /\ pc = "key_s2_clr"
  /\ key_s2_event' = FALSE
  /\ pc' = "key_s3"
  /\ UNCHANGED <<wakeup_main, one_second_event, key_s3_event,
                 motor_action_delay, motor_action_event, motor_state,
                 last_action, shutter_state, newdelay, MOTOR_on, MOTOR_down,
                 motorHist>>
  /\ UNCHANGED <<timeVars, schedVars, schedHist, clockVars>>
  /\ UNCHANGED <<sensVars, msgVars, auxVars>>

\* key_s2_event = key_s3_event = 0;
KeyS2Clr ==
  /\ pc = "key_s2_clr"
  /\ key_s2_event' = FALSE
  /\ key_s3_event' = FALSE
  /\ pc' = "key_s3"
  /\ h_stale' = FALSE
  /\ UNCHANGED <<wakeup_main, one_second_event, motor_action_delay,
                 motor_action_event, motor_state, last_action, shutter_state,
                 newdelay, MOTOR_on, MOTOR_down, h_off_age, h_dir_age,
                 h_gap_dir, h_gap_on, h_ran, h_ready, h_cut, h_on_age>>
  /\ UNCHANGED <<timeVars, schedVars, schedHist, clockVars>>
  /\ UNCHANGED <<sensVars, msgVars, auxVars>>

\* if (key_s3_event) trigger_action (action_up_key);
KeyS3 ==
  /\ pc = "key_s3"
  /\ IF key_s3_event
       THEN /\ trigger_action(action_up_key)
            /\ NoteTrigger
            /\ pc' = "key_s3_clr"
       ELSE /\ pc' = "motor"
            /\ UNCHANGED <<motor_state, last_action, motor_action_delay, h_cut>>
  /\ UNCHANGED <<wakeup_main, one_second_event, key_s2_event, key_s3_event,
                 motor_action_event, shutter_state, newdelay, MOTOR_on,
                 MOTOR_down, h_off_age, h_dir_age, h_gap_dir, h_gap_on,
                 h_ran, h_ready, h_on_age, h_stale>>
  /\ UNCHANGED <<timeVars, schedVars, schedHist, clockVars>>
  /\ UNCHANGED <<sensVars, msgVars, auxVars>>

\* key_s3_event = 0;
KeyS3Clr ==
  /\ pc = "key_s3_clr"
  /\ key_s3_event' = FALSE
  /\ pc' = "motor"
  /\ h_stale' = FALSE
  /\ UNCHANGED <<wakeup_main, one_second_event, key_s2_event,
                 motor_action_delay, motor_action_event, motor_state,
                 last_action, shutter_state, newdelay, MOTOR_on, MOTOR_down,
                 h_off_age, h_dir_age, h_gap_dir, h_gap_on, h_ran, h_ready,
                 h_cut, h_on_age>>
  /\ UNCHANGED <<timeVars, schedVars, schedHist, clockVars>>
  /\ UNCHANGED <<sensVars, msgVars, auxVars>>

\* if (motor_action_event) { motor_action_event = 0; ...
MotorCheck ==
  /\ pc = "motor"
  /\ IF motor_action_event
       THEN motor_action_event' = FALSE /\ pc' = "motor_run"
       ELSE motor_action_event' = motor_action_event /\ pc' = "second"
  /\ UNCHANGED <<wakeup_main, one_second_event, key_s2_event, key_s3_event,
                 motor_action_delay, motor_state, last_action, shutter_state,
                 newdelay, MOTOR_on, MOTOR_down, motorHist>>
  /\ UNCHANGED <<timeVars, schedVars, schedHist, clockVars>>
  /\ UNCHANGED <<sensVars, msgVars, auxVars>>

Has(seq, x) == \E i \in 1..Len(seq) : seq[i] = x

\* ... motor_action () runs: state, ports and shutter_state are written,
\* the delay it returns is not stored yet.
MotorRun ==
  /\ pc = "motor_run"
  /\ LET m == motor_action IN
       /\ motor_state' = m.state
       /\ MOTOR_on' = m.on
       /\ MOTOR_down' = m.down
       /\ shutter_state' = m.sh
       /\ newdelay' = m.delay
       /\ h_off_age' = IF Has(m.writes, "off") THEN 0 ELSE h_off_age
       /\ h_dir_age' = IF Has(m.writes, "dir_up") \/ Has(m.writes, "dir_down")
                         THEN 0 ELSE h_dir_age
       /\ h_gap_dir' = IF Has(m.writes, "dir_up") \/ Has(m.writes, "dir_down")
                         THEN h_off_age ELSE h_gap_dir
       /\ h_gap_on' = IF Has(m.writes, "on") THEN h_dir_age ELSE h_gap_on
       /\ h_ran' = (h_ran \/ Has(m.writes, "on"))
       /\ h_ready' = IF Has(m.writes, "on") THEN FALSE
                     ELSE (h_ready \/ Has(m.ran, motor_state_up_ready)
                                   \/ Has(m.ran, motor_state_down_ready))
       /\ h_cut' = IF Has(m.writes, "on") THEN FALSE ELSE h_cut
       /\ h_on_age' = IF Has(m.writes, "on") \/ Has(m.writes, "off")
                        THEN 0 ELSE h_on_age
  /\ pc' = "motor_store"
  /\ UNCHANGED <<wakeup_main, one_second_event, key_s2_event, key_s3_event,
                 motor_action_delay, motor_action_event, last_action,
                 h_stale>>
  /\ UNCHANGED <<timeVars, schedVars, schedHist, clockVars>>
  /\ UNCHANGED <<sensVars, msgVars, auxVars>>

\* ... motor_action_delay = <value returned>; }
MotorStore ==
  /\ pc = "motor_store"
  /\ motor_action_delay' = newdelay
  /\ pc' = "second"
  /\ UNCHANGED <<wakeup_main, one_second_event, key_s2_event, key_s3_event,
                 motor_action_event, motor_state, last_action, shutter_state,
                 newdelay, MOTOR_on, MOTOR_down, motorHist>>
  /\ UNCHANGED <<timeVars, schedVars, schedHist, clockVars>>
  /\ UNCHANGED <<sensVars, msgVars, auxVars>>

\* What process_schedule can do to the motor: nothing, pull up, pull down
\* (SpecSched has the engine itself); the same for one inbound message.
Outcomes == {"nop", action_up, action_down}

\* if (one_second_event) { one_second_event = 0; ... process_schedule }
Second ==
  /\ pc = "second"
  /\ IF one_second_event
       THEN /\ one_second_event' = FALSE
            /\ \E fire \in Outcomes :
                 IF fire = "nop"
                   THEN UNCHANGED <<motor_state, last_action,
                                    motor_action_delay, h_cut>>
                   ELSE trigger_action(fire) /\ NoteTrigger
       ELSE UNCHANGED <<one_second_event, motor_state, last_action,
                        motor_action_delay, h_cut>>
  /\ pc' = "msg"
  /\ UNCHANGED <<wakeup_main, key_s2_event, key_s3_event, motor_action_event,
                 shutter_state, newdelay, MOTOR_on, MOTOR_down, h_off_age,
                 h_dir_age, h_gap_dir, h_gap_on, h_ran, h_ready, h_on_age,
                 h_stale>>
  /\ UNCHANGED <<timeVars, schedVars, schedHist, clockVars>>
  /\ UNCHANGED <<sensVars, msgVars, auxVars>>

\* msg = csma_get_message (); the drive command (or a TIME message whose
\* catch-up evaluation fires) triggers; everything else leaves the motor alone.
Message ==
  /\ pc = "msg"
  /\ \E fire \in Outcomes :
       IF fire = "nop"
         THEN UNCHANGED <<motor_state, last_action, motor_action_delay, h_cut>>
         ELSE trigger_action(fire) /\ NoteTrigger
  /\ pc' = "wait"
  /\ UNCHANGED <<wakeup_main, one_second_event, key_s2_event, key_s3_event,
                 motor_action_event, shutter_state, newdelay, MOTOR_on,
                 MOTOR_down, h_off_age, h_dir_age, h_gap_dir, h_gap_on,
                 h_ran, h_ready, h_on_age, h_stale>>
  /\ UNCHANGED <<timeVars, schedVars, schedHist, clockVars>>
  /\ UNCHANGED <<sensVars, msgVars, auxVars>>

---------------------------------------------------------------------------
\* After main's setup: flags clear, ports off, state machine off.
InitMotor ==
  /\ wakeup_main = FALSE /\ one_second_event = FALSE
  /\ key_s2_event = FALSE /\ key_s3_event = FALSE
  /\ motor_action_delay = 0 /\ motor_action_event = FALSE
  /\ pc = "wait"
  /\ motor_state = motor_state_off /\ last_action = action_none
  /\ shutter_state = 0 /\ newdelay = 0
  /\ MOTOR_on = FALSE /\ MOTOR_down = FALSE
  /\ h_off_age = SettleTicks /\ h_dir_age = SettleTicks
  /\ h_gap_dir = SettleTicks /\ h_gap_on = SettleTicks
  /\ h_on_age = 0 /\ h_stale = FALSE
  /\ h_ran = FALSE /\ h_ready = FALSE /\ h_cut = FALSE

---------------------------------------------------------------------------
\* Schedule engine.  Times are counts of 10 s within the week; an entry is
\* minute * 6 + action code.
WeekLen == 60480
Lookback == 30
Word == 65536
SCHEDULE_ACTION_NOP  == 0
SCHEDULE_ACTION_UP   == 1
SCHEDULE_ACTION_DOWN == 5

\* Bounds of SpecSched: table length (DIM of the EEPROM schedule array) and
\* the number of 10 s roll-overs followed after boot or a TIME message.
SchedLen == 2
MaxRun == 6

\* Entries an update-schedule command can have written: end marker 0,
\* 00:00 pull-up, 00:03 no-op, 00:04 pull-down.
EntryVals == {0, 1, 18, 29}
\* Timestamps carried by TIME messages: Monday 00:00:00, 00:04:00 and the
\* last 10 s of the week.
TimeVals == {0, 24, 36, WeekLen - 1}

EntryTime(e)   == (e \div 6) * 6
EntryAction(e) == e % 6

\* The for loop of process_schedule over the table from index i on: stops
\* at the first zero entry, remembers the last entry inside (tlow, thigh].
RECURSIVE walk_schedule(_, _, _, _, _)
\* Mutant: the walk keeps the first entry found instead of the last.
walk_schedule_first(tab, i, tlow, thigh, tfound) ==
  IF i > Len(tab) THEN tfound
  ELSE IF tab[i] = 0 THEN tfound
  ELSE IF tab[i] > tlow /\ tab[i] <= thigh THEN tab[i]
  ELSE walk_schedule(tab, i + 1, tlow, thigh, tfound)

walk_schedule(tab, i, tlow, thigh, tfound) ==
  IF i > Len(tab) THEN tfound
  ELSE IF tab[i] = 0 THEN tfound
  ELSE walk_schedule(tab, i + 1, tlow, thigh,
                     IF tab[i] > tlow /\ tab[i] <= thigh THEN tab[i]
                     ELSE tfound)

\* Mutant: the entry is compared with the action codes without "% 6".
sched_result_nomod(gated, last, tlow, thigh, tfound) ==
  [gated |-> gated, last |-> last, tlow |-> tlow, thigh |-> thigh,
   tfound |-> tfound,
   fire |-> IF gated \/ tfound = 0 THEN "nop"
            ELSE IF tfound = SCHEDULE_ACTION_UP THEN action_up
            ELSE IF tfound = SCHEDULE_ACTION_DOWN THEN action_down
            ELSE "nop"]

\* The end of process_schedule: "tfound %= 6" and the action fired for it,
\* with the rest of the result.
sched_result(gated, last, tlow, thigh, tfound) ==
  [gated |-> gated, last |-> last, tlow |-> tlow, thigh |-> thigh,
   tfound |-> tfound,
   fire |-> IF gated \/ tfound = 0 THEN "nop"
            ELSE IF EntryAction(tfound) = SCHEDULE_ACTION_UP THEN action_up
            ELSE IF EntryAction(tfound) = SCHEDULE_ACTION_DOWN THEN action_down
            ELSE "nop"]

\* Mutant: the clock check is missing.
process_schedule_ungated(time, forced_tlow) ==
  LET last1 == IF schedule_last_tfound > time \/ forced_tlow # 0
                 THEN 0 ELSE schedule_last_tfound
      time6 == (time \div 6) * 6
      base  == IF forced_tlow # 0 THEN forced_tlow ELSE time6
      tlow0 == IF base >= Lookback THEN base - Lookback ELSE 0
      tlow  == IF last1 # 0 /\ last1 > tlow0 THEN last1 ELSE tlow0
      thigh == (time6 + 5) % Word
      tfound == walk_schedule(schedule, 1, tlow, thigh, 0)
  IN  sched_result(FALSE, IF tfound # 0 THEN tfound ELSE last1,
                   tlow, thigh, tfound)

\* process_schedule (time, forced_tlow), run after the assignments of the
\* calling handler (it reads time_has_been_set as the handler left it).
\* Result: gated (returned at the clock check), the new
\* schedule_last_tfound, the window, the entry found and the action fired.
\* Mutant: the marker of the entry fired last is not cleared when the time
\* has wrapped to the next week.
process_schedule_nowrap(time, forced_tlow) ==
  LET last1 == IF forced_tlow # 0 THEN 0 ELSE schedule_last_tfound
      time6 == (time \div 6) * 6
      base  == IF forced_tlow # 0 THEN forced_tlow ELSE time6
      tlow0 == IF base >= Lookback THEN base - Lookback ELSE 0
      tlow  == IF last1 # 0 /\ last1 > tlow0 THEN last1 ELSE tlow0
      thigh == (time6 + 5) % Word
      tfound == walk_schedule(schedule, 1, tlow, thigh, 0)
  IN  IF ~time_has_been_set'
        THEN sched_result(TRUE, schedule_last_tfound, 0, 0, 0)
        ELSE sched_result(FALSE, IF tfound # 0 THEN tfound ELSE last1,
                          tlow, thigh, tfound)

process_schedule(time, forced_tlow) ==
  LET last1 == IF schedule_last_tfound > time \/ forced_tlow # 0
                 THEN 0 ELSE schedule_last_tfound
      time6 == (time \div 6) * 6
      base  == IF forced_tlow # 0 THEN forced_tlow ELSE time6
      tlow0 == IF base >= Lookback THEN base - Lookback ELSE 0
      tlow  == IF last1 # 0 /\ last1 > tlow0 THEN last1 ELSE tlow0
      thigh == (time6 + 5) % Word
      tfound == walk_schedule(schedule, 1, tlow, thigh, 0)
  IN  IF ~time_has_been_set'
        THEN sched_result(TRUE, schedule_last_tfound, 0, 0, 0)
        ELSE sched_result(FALSE, IF tfound # 0 THEN tfound ELSE last1,
                          tlow, thigh, tfound)

\* Record of the handler run that led to the current state (observer; it is
\* NoCall after any other step).  kind: "periodic" for the once-a-minute
\* call of the main loop, "time" for a TIME message; called: process_schedule
\* was called; told: the local time read before; again: the entry fired had
\* fired before in this week, with the same table and no step back of the
\* clock since.
NoCall == [kind |-> "none", called |-> FALSE, time |-> 0, told |-> 0,
           gated |-> FALSE, tlow |-> 0, thigh |-> 0, tfound |-> 0,
           fire |-> "nop", again |-> FALSE]

\* A call of process_schedule from a handler: its result is applied
\* (schedule_last_tfound, trigger_action) and recorded.
Evaluate(kind, time, forced_tlow) ==
  LET r   == process_schedule(time, forced_tlow)
      hit == IF r.fire # "nop" THEN {r.tfound} ELSE {}
  IN  /\ schedule_last_tfound' = r.last
      /\ IF r.fire = "nop"
           THEN UNCHANGED <<motor_state, last_action, motor_action_delay>>
           ELSE trigger_action(r.fire)
      /\ h_call' = [kind |-> kind, called |-> TRUE, time |-> time,
                    told |-> forced_tlow,
                    gated |-> r.gated, tlow |-> r.tlow, thigh |-> r.thigh,
                    tfound |-> r.tfound, fire |-> r.fire,
                    again |-> (hit \cap h_fired # {})]
      /\ h_fired' = h_fired \cup hit

\* current_time++; if (current_time == 1440 * 6 * 7) current_time = 0;
next_time(t) == IF (t + 1) % Word = WeekLen THEN 0 ELSE (t + 1) % Word

\* The 10 s roll-over of the tick ISR: current_time is bumped and wraps at
\* the end of the week.
TenSecondRoll ==
  /\ h_run < MaxRun
  /\ h_run' = h_run + 1
  /\ current_time' = next_time(current_time)
  /\ ten_due' = TRUE
  /\ h_call' = NoCall
  /\ h_fired' = IF current_time' = 0 THEN {} ELSE h_fired
  /\ UNCHANGED <<current_clock, time_has_been_set, schedVars, motorVars,
                 motorHist, clockVars>>
  /\ UNCHANGED <<sensVars, msgVars, auxVars>>

\* Main loop, every tenth one-second event: t = get_current_time ();
\* if (!(t % 6)) process_schedule (t, 0);
Housekeeping ==
  /\ ten_due
  /\ ten_due' = FALSE
  /\ UNCHANGED <<timeVars, schedule, h_run>>
  /\ IF current_time % 6 = 0
       THEN Evaluate("periodic", current_time, 0)
       ELSE /\ h_call' = [NoCall EXCEPT !.kind = "periodic"]
            /\ UNCHANGED <<schedule_last_tfound, motor_state, last_action,
                           motor_action_delay, h_fired>>
  /\ UNCHANGED <<wakeup_main, one_second_event, key_s2_event, key_s3_event,
                 motor_action_event, pc, shutter_state, newdelay, MOTOR_on,
                 MOTOR_down, motorHist, clockVars>>
  /\ UNCHANGED <<sensVars, msgVars, auxVars>>

\* Mutant: the deciseconds are stored without the factor 10.
set_current_fulltime_raw(tim, deci) ==
  /\ current_time' = tim
  /\ current_clock' = deci
  /\ time_has_been_set' = TRUE

\* set_current_fulltime: both counters are stored as received, between cli
\* and sei.
set_current_fulltime(tim, deci) ==
  /\ current_time' = tim
  /\ current_clock' = deci * 10
  /\ time_has_been_set' = TRUE

\* Mutant: the schedule is evaluated without the forced low bound.
time_message_unforced(val16, val8, t) ==
  /\ set_current_fulltime(val16, val8)
  /\ UNCHANGED schedule
  /\ IF val16 > t
       THEN Evaluate("time", val16, 0)
       ELSE /\ h_call' = [NoCall EXCEPT !.kind = "time", !.time = val16,
                                        !.told = t]
            /\ h_fired' = IF val16 < current_time THEN {} ELSE h_fired
            /\ UNCHANGED <<schedule_last_tfound, motor_state, last_action,
                           motor_action_delay>>

\* process_ebus_busctl, P_BUSCTL_TIME, after t = get_current_time ():
\* set_current_fulltime (val16, val8);
\* if (val16 > t) process_schedule (val16, t);
time_message(val16, val8, t) ==
  /\ set_current_fulltime(val16, val8)
  /\ UNCHANGED schedule
  /\ IF val16 > t
       THEN Evaluate("time", val16, t)
       ELSE /\ h_call' = [NoCall EXCEPT !.kind = "time", !.time = val16,
                                        !.told = t]
            /\ h_fired' = IF val16 < current_time THEN {} ELSE h_fired
            /\ UNCHANGED <<schedule_last_tfound, motor_state, last_action,
                           motor_action_delay>>

\* A TIME message without the decisecond flag, as SpecSched sees it: the
\* read of the old time is one step with the rest.  The message moves the
\* phase between the roll-over and the housekeeping.
TimeMsg ==
  \E val16 \in TimeVals, due \in BOOLEAN :
    /\ time_message(val16, 0, current_time)
    /\ ten_due' = due
    /\ h_run' = 0
    /\ UNCHANGED <<wakeup_main, one_second_event, key_s2_event, key_s3_event,
                   motor_action_event, pc, shutter_state, newdelay, MOTOR_on,
                   MOTOR_down, motorHist, clockVars>>
    /\ UNCHANGED <<sensVars, msgVars, auxVars>>

\* process_shutter_cmd, P_H61_SHUTTER_UPD_SCHEDULE with a valid index:
\* the entry is overwritten with minute * 6 + action code.
UpdSchedule ==
  \E i \in 1..SchedLen, v \in EntryVals :
    /\ schedule[i] # v
    /\ schedule' = [schedule EXCEPT ![i] = v]
    /\ h_call' = NoCall
    /\ h_fired' = {}
    /\ UNCHANGED <<timeVars, schedule_last_tfound, ten_due, h_run,
                   motorVars, motorHist, clockVars>>
    /\ UNCHANGED <<sensVars, msgVars, auxVars>>

---------------------------------------------------------------------------
\* The weekly clock at the grain of the 2 ms interrupt.  current_time is a
\* 16 bit word in the memory of an 8 bit processor: a read without cli takes
\* two byte loads, in the order the compiler has chosen, and the ISR may run
\* between them.
MaxIsr == 60
ClockTimes == {255, 60479, 60480}
DeciVals == {0, 99}
ByteOrders == {"lo", "hi"}
NoAnswer == [time |-> -1, deci |-> -1]
\* h_set: what the last TIME message stored, until the next 10 ms tick.
NoSet == [tim |-> -1, deci |-> -1]
LoByte(x) == x % 256
HiByte(x) == x \div 256

\* ISR (TIMER2_COMPA_vect): every fifth interrupt is a 10 ms tick, which
\* advances the clock and calls ticker_bottom (no key is pressed).
ClockIsr ==
  /\ h_isr < MaxIsr
  /\ h_isr' = h_isr + 1
  /\ IF (two_ms_counter + 1) % 256 # 5
       THEN /\ two_ms_counter' = (two_ms_counter + 1) % 256
            /\ UNCHANGED <<current_time, current_clock, wakeup_main,
                           one_second_event, key_s2_event, key_s3_event,
                           motor_action_delay, motor_action_event, sensVars>>
       ELSE /\ two_ms_counter' = 0
            /\ current_time' = IF (current_clock + 1) % Word >= 1000
                                 THEN next_time(current_time)
                                 ELSE current_time
            /\ current_clock' = IF (current_clock + 1) % Word >= 1000
                                  THEN 0 ELSE (current_clock + 1) % Word
            /\ ticker_bottom(current_clock' % 100 = 0, FALSE, FALSE)
  /\ rd_held' = IF rd_pc = "idle" THEN {} ELSE rd_held \cup {current_time'}
  /\ rd_val' = -1
  /\ fr_val' = NoAnswer
  /\ h_set' = IF (two_ms_counter + 1) % 256 # 5 THEN h_set ELSE NoSet
  /\ h_call' = NoCall
  /\ UNCHANGED <<time_has_been_set, schedVars, ten_due, h_run, h_fired,
                 pc, motor_state, last_action, shutter_state, newdelay,
                 MOTOR_on, MOTOR_down, motorHist,
                 rd_pc, rd_order, rd_part>>
  /\ UNCHANGED <<msgVars, auxVars>>

\* get_current_time, first byte load.
get_current_time_first(site, order) ==
  /\ rd_pc = "idle"
  /\ rd_pc' = site
  /\ rd_order' = order
  /\ rd_part' = IF order = "lo" THEN LoByte(current_time)
                ELSE HiByte(current_time)
  /\ rd_held' = {current_time}
  /\ rd_val' = -1

\* get_current_time, second byte load: the value returned.
get_current_time_value ==
  IF rd_order = "lo" THEN HiByte(current_time) * 256 + rd_part
  ELSE rd_part * 256 + LoByte(current_time)

\* A TIME message arrives: t = get_current_time () begins.
TimeBegin ==
  /\ \E order \in ByteOrders : get_current_time_first("time", order)
  /\ fr_val' = NoAnswer
  /\ UNCHANGED <<motorVars, motorHist, timeVars, schedVars, schedHist,
                 two_ms_counter, h_isr, h_set>>
  /\ UNCHANGED <<sensVars, msgVars, auxVars>>

\* The read ends and the rest of the TIME handler runs.
TimeEnd ==
  /\ rd_pc = "time"
  /\ rd_pc' = "idle"
  /\ rd_val' = get_current_time_value
  /\ \E val16 \in ClockTimes, val8 \in DeciVals :
        /\ time_message(val16, val8, get_current_time_value)
        /\ h_set' = [tim |-> val16, deci |-> val8]
  /\ UNCHANGED <<wakeup_main, one_second_event, key_s2_event, key_s3_event,
                 motor_action_event, pc, shutter_state, newdelay, MOTOR_on,
                 MOTOR_down, motorHist, ten_due, h_run,
                 two_ms_counter, rd_order, rd_part, fr_val, rd_held, h_isr>>
  /\ UNCHANGED <<sensVars, msgVars, auxVars>>

\* Main loop, one_second_event on the tenth second: the event is cleared and
\* t = get_current_time () begins.
HousekeepingBegin ==
  /\ one_second_event
  /\ one_second_event' = FALSE
  /\ \E order \in ByteOrders : get_current_time_first("second", order)
  /\ UNCHANGED <<wakeup_main, key_s2_event, key_s3_event, motor_action_delay,
                 motor_action_event, pc, motor_state, last_action,
                 shutter_state, newdelay, MOTOR_on, MOTOR_down, motorHist,
                 timeVars, schedVars, schedHist,
                 two_ms_counter, fr_val, h_isr, h_set>>
  /\ UNCHANGED <<sensVars, msgVars, auxVars>>

\* The read ends: if (!(t % 6)) process_schedule (t, 0);
HousekeepingEnd ==
  /\ rd_pc = "second"
  /\ rd_pc' = "idle"
  /\ rd_val' = get_current_time_value
  /\ UNCHANGED <<timeVars, schedule>>
  /\ IF get_current_time_value % 6 = 0
       THEN Evaluate("periodic", get_current_time_value, 0)
       ELSE /\ h_call' = [NoCall EXCEPT !.kind = "periodic"]
            /\ UNCHANGED <<schedule_last_tfound, motor_state, last_action,
                           motor_action_delay, h_fired>>
  /\ UNCHANGED <<wakeup_main, one_second_event, key_s2_event, key_s3_event,
                 motor_action_event, pc, shutter_state, newdelay, MOTOR_on,
                 MOTOR_down, motorHist, ten_due, h_run,
                 two_ms_counter, rd_order, rd_part, fr_val, rd_held, h_isr,
                 h_set>>
  /\ UNCHANGED <<sensVars, msgVars, auxVars>>

\* get_current_fulltime: both counters are read between cli and sei; the
\* value returned and *r_deci = lo / 10 as a byte.
get_current_fulltime ==
  [time |-> current_time, deci |-> (current_clock \div 10) % 256]

\* process_ebus_busctl, P_BUSCTL_QRY_TIME: get_current_fulltime reads both
\* counters between cli and sei; the answer carries the time and lo / 10
\* as a byte.  (fr_val is the answer sent; the next tick clears the record.)
QryTime ==
  /\ rd_pc = "idle"
  /\ fr_val' = get_current_fulltime
  /\ fr_val' # fr_val
  /\ UNCHANGED <<motorVars, motorHist, timeVars, schedVars, schedHist,
                 two_ms_counter, rd_pc, rd_order, rd_part, rd_val, rd_held,
                 h_isr, h_set>>
  /\ UNCHANGED <<sensVars, msgVars, auxVars>>

---------------------------------------------------------------------------
\* No message, no sensor request: the message side of a node at rest.
Zero9 == <<0, 0, 0, 0, 0, 0, 0, 0, 0>>
NoMsg == [proto |-> "none", dst |-> <<0, 0>>, src |-> <<0, 0>>,
          cmd |-> "none", marks |-> {}, sub |-> "none", b6 |-> 0,
          d |-> Zero9]

\* h_sens: the course of the sensor request under way, up to the step that
\* answers it: scratchpad reads, answers sent, the requester, whether
\* another requester has asked.
NoSens == [reads |-> 0, answers |-> 0, first |-> <<0, 0>>, others |-> FALSE]

Keys == {"s2", "s3"}

\* The statics of the key readers start at 0.
InitKeys ==
  /\ key_reg = [k \in Keys |-> 0] /\ key_ret = FALSE
  /\ h_dep = 0 /\ h_up = FALSE

\* After main's setup: no conversion under way, no debug flags.
InitCalm ==
  /\ sensor_action_delay = 0 /\ sensor_action_event = FALSE
  /\ sensor_ctrl = [active |-> 0, addr_hi |-> 0, addr_lo |-> 0]
  /\ debug_flags = 0
  /\ outbox = <<>> /\ h_req = NoMsg /\ h_sens = NoSens /\ h_sync = "none"
  /\ rx_buf = NoMsg /\ rx_held = FALSE /\ h_pass = <<>> /\ h_rel = 0
  /\ h_ticks = 0
  /\ wire = <<>>
  /\ rx_frame = [ok |-> FALSE, id |-> 0, pay |-> <<>>, raw |-> <<>>]
  /\ fr_pc = "idle" /\ h_txs = 0
  /\ h_weeks = 0 /\ h_trig = <<>>

InitQuiet == InitCalm /\ InitKeys /\ key_sel = "none"

InitIdle == InitQuiet /\ tx_id = 0 /\ tx_pay = <<>>

\* Initial states.  The clock starts at 0 and is not set; the EEPROM holds a
\* table whose first entry is not 0 (init_eeprom rewrites it otherwise).
InitTime ==
  /\ current_time = 0 /\ current_clock = 0 /\ time_has_been_set = FALSE

InitSchedHist ==
  /\ ten_due = TRUE /\ h_run = 0 /\ h_call = NoCall
  /\ h_fired = {}

InitClock ==
  /\ two_ms_counter = 0 /\ rd_pc = "idle" /\ rd_order = "lo" /\ rd_part = 0
  /\ fr_val = NoAnswer
  /\ rd_val = -1 /\ rd_held = {} /\ h_isr = 0 /\ h_set = NoSet

Tables == {tab \in [1..SchedLen -> EntryVals] : tab[1] # 0}

Init ==
  /\ InitMotor /\ InitTime /\ InitSchedHist /\ InitClock /\ InitIdle
  /\ ten_seconds_counter = 0
  /\ booted = TRUE
  /\ schedule_last_tfound = 0
  /\ schedule = [i \in 1..SchedLen |-> IF i = 1 THEN 1 ELSE 0]

Next ==
  \/ Tick
  \/ MainWait \/ MainWake
  \/ KeyS2 \/ KeyS2Clr \/ KeyS3 \/ KeyS3Clr
  \/ MotorCheck \/ MotorRun \/ MotorStore
  \/ Second \/ Message

Spec == Init /\ [][Next]_vars

InitSched ==
  /\ InitMotor /\ InitTime /\ InitSchedHist /\ InitClock /\ InitIdle
  /\ ten_seconds_counter = 0
  /\ booted = TRUE
  /\ schedule_last_tfound = 0
  /\ schedule \in Tables

NextSched == TenSecondRoll \/ Housekeeping \/ TimeMsg \/ UpdSchedule

SpecSched == InitSched /\ [][NextSched]_vars

NextClock ==
  \/ ClockIsr
  \/ TimeBegin \/ TimeEnd
  \/ HousekeepingBegin \/ HousekeepingEnd
  \/ QryTime

SpecClock == Init /\ [][NextClock]_vars

\* The time base over a whole 10 s period of the interrupt: the clock is set
\* at most once, before the first interrupt, and the main loop takes the
\* one-second event whenever it is pending.
BaseIsrs == 5010

\* Mutant: ticker_bottom is handed the clock as it was before the increment.
BaseIsr_oldclock ==
  /\ h_isr < BaseIsrs
  /\ h_isr' = h_isr + 1
  /\ IF (two_ms_counter + 1) % 256 # 5
       THEN /\ two_ms_counter' = (two_ms_counter + 1) % 256
            /\ UNCHANGED <<current_time, current_clock, wakeup_main,
                           one_second_event, key_s2_event, key_s3_event,
                           motor_action_delay, motor_action_event, sensVars>>
       ELSE /\ two_ms_counter' = 0
            /\ current_time' = IF (current_clock + 1) % Word >= 1000
                                 THEN next_time(current_time)
                                 ELSE current_time
            /\ current_clock' = IF (current_clock + 1) % Word >= 1000
                                  THEN 0 ELSE (current_clock + 1) % Word
            /\ ticker_bottom(current_clock % 100 = 0, FALSE, FALSE)
  /\ rd_held' = IF rd_pc = "idle" THEN {} ELSE rd_held \cup {current_time'}
  /\ rd_val' = -1
  /\ fr_val' = NoAnswer
  /\ h_set' = IF (two_ms_counter + 1) % 256 # 5 THEN h_set ELSE NoSet
  /\ h_call' = NoCall
  /\ UNCHANGED <<time_has_been_set, schedVars, ten_due, h_run, h_fired,
                 pc, motor_state, last_action, shutter_state, newdelay,
                 MOTOR_on, MOTOR_down, motorHist,
                 rd_pc, rd_order, rd_part>>
  /\ UNCHANGED <<msgVars, auxVars>>

\* ISR (TIMER2_COMPA_vect): if (++two_ms_counter != 5) return;
\* two_ms_counter = 0; current_clock++; if (current_clock >= 1000)
\* { current_time++ with the weekly roll-over; current_clock = 0; }
\* ticker_bottom (current_clock);
BaseIsr ==
  /\ h_isr < BaseIsrs
  /\ h_isr' = h_isr + 1
  /\ IF (two_ms_counter + 1) % 256 # 5
       THEN /\ two_ms_counter' = (two_ms_counter + 1) % 256
            /\ UNCHANGED <<current_time, current_clock, wakeup_main,
                           one_second_event, key_s2_event, key_s3_event,
                           motor_action_delay, motor_action_event, sensVars>>
       ELSE /\ two_ms_counter' = 0
            /\ current_time' = IF (current_clock + 1) % Word >= 1000
                                 THEN next_time(current_time)
                                 ELSE current_time
            /\ current_clock' = IF (current_clock + 1) % Word >= 1000
                                  THEN 0 ELSE (current_clock + 1) % Word
            /\ ticker_bottom(current_clock' % 100 = 0, FALSE, FALSE)
  /\ rd_held' = IF rd_pc = "idle" THEN {} ELSE rd_held \cup {current_time'}
  /\ rd_val' = -1
  /\ fr_val' = NoAnswer
  /\ h_set' = IF (two_ms_counter + 1) % 256 # 5 THEN h_set ELSE NoSet
  /\ h_call' = NoCall
  /\ UNCHANGED <<time_has_been_set, schedVars, ten_due, h_run, h_fired,
                 pc, motor_state, last_action, shutter_state, newdelay,
                 MOTOR_on, MOTOR_down, motorHist,
                 rd_pc, rd_order, rd_part>>
  /\ UNCHANGED <<msgVars, auxVars>>

\* A TIME message before the first interrupt: the last minute of the week,
\* with the deciseconds at the start or at the end of the 10 s period.
BaseSet ==
  /\ h_isr = 0 /\ ~time_has_been_set /\ rd_pc = "idle"
  /\ \E val8 \in DeciVals :
        /\ time_message(WeekLen - 1, val8, current_time)
        /\ h_set' = [tim |-> WeekLen - 1, deci |-> val8]
  /\ UNCHANGED <<wakeup_main, one_second_event, key_s2_event, key_s3_event,
                 motor_action_event, pc, shutter_state, newdelay, MOTOR_on,
                 MOTOR_down, motorHist, ten_due, h_run,
                 two_ms_counter, rd_pc, rd_order, rd_part, rd_val, fr_val,
                 rd_held, h_isr>>
  /\ UNCHANGED <<sensVars, msgVars, auxVars>>

NextBase == BaseSet \/ BaseIsr \/ HousekeepingBegin \/ HousekeepingEnd

SpecBase == Init /\ [][NextBase]_vars

---------------------------------------------------------------------------
\* Messages.  A message is the 16 byte unit of the bus: msg[0] the protocol,
\* msg[1..2] the destination, msg[3..4] the source, msg[5] the command code
\* (cmd) with its marker bits (marks), msg[6] the sub-command (sub where a
\* handler switches on it, b6 where a handler reads it as a number) and
\* msg[7..15] the data bytes (d[1..9]).  The codes of the protocol headers
\* are kept by name.
PROTOCOL_EBUS_BUSCTL == "PROTOCOL_EBUS_BUSCTL"
PROTOCOL_EBUS_H61    == "PROTOCOL_EBUS_H61"
PROTOCOL_EBUS_DBGMSG == "PROTOCOL_EBUS_DBGMSG"

P_H61_SHUTTER == "P_H61_SHUTTER"
P_H61_SENSOR  == "P_H61_SENSOR"
P_H61_SHUTTER_QUERY        == "P_H61_SHUTTER_QUERY"
P_H61_SHUTTER_DRIVE        == "P_H61_SHUTTER_DRIVE"
P_H61_SHUTTER_QRY_TIMINGS  == "P_H61_SHUTTER_QRY_TIMINGS"
P_H61_SHUTTER_UPD_TIMINGS  == "P_H61_SHUTTER_UPD_TIMINGS"
P_H61_SHUTTER_QRY_SCHEDULE == "P_H61_SHUTTER_QRY_SCHEDULE"
P_H61_SHUTTER_UPD_SCHEDULE == "P_H61_SHUTTER_UPD_SCHEDULE"
P_H61_SENSOR_TEMPERATURE   == "P_H61_SENSOR_TEMPERATURE"

P_BUSCTL_TIME        == "P_BUSCTL_TIME"
P_BUSCTL_QRY_TIME    == "P_BUSCTL_QRY_TIME"
P_BUSCTL_QRY_VERSION == "P_BUSCTL_QRY_VERSION"
P_BUSCTL_SET_DEBUG   == "P_BUSCTL_SET_DEBUG"
P_BUSCTL_QRY_DEBUG   == "P_BUSCTL_QRY_DEBUG"

\* The response marker of the command byte.  Both protocols use one and the
\* same bit of msg[5].
P_H61_RESPMASK    == "RESPMASK"
P_BUSCTL_RESPMASK == "RESPMASK"

\* config.nodeid_hi, config.nodeid_lo as read from the EEPROM.
config_nodeid == <<1, 17>>

\* Bounds: MILLISEC(900) and MILLISEC(1100) scaled down to a few ticks, and
\* the length of the schedule array as the table of SpecMsg has it.
ConvertTicks == 2
RetryTicks   == 3
DimSchedule  == 16

\* msg[k] for k in 7..15.
D(msg, k) == msg.d[k - 6]
Bit(x, b) == (x \div b) % 2 = 1

\* Mutant: the answer keeps the destination of the request.
response_noswap(msg) ==
  [msg EXCEPT !.src = config_nodeid,
              !.marks = msg.marks \cup {P_BUSCTL_RESPMASK}]

\* What every handler that answers does to the message buffer first:
\* msg[1..2] = msg[3..4]; msg[3..4] = nodeid; msg[5] |= P_BUSCTL_RESPMASK.
response(msg) ==
  [msg EXCEPT !.dst = msg.src, !.src = config_nodeid,
              !.marks = msg.marks \cup {P_BUSCTL_RESPMASK}]

\* send_dbgmsg: a debug message with the node id in msg[1..2] and the text
\* behind it, sent only when debug flags are set.
send_dbgmsg(string) ==
  IF debug_flags # 0
    THEN <<[proto |-> PROTOCOL_EBUS_DBGMSG, dst |-> config_nodeid,
            src |-> <<0, 0>>, cmd |-> string, marks |-> {}, sub |-> "none",
            b6 |-> 0, d |-> Zero9]>>
    ELSE <<>>

\* What a handler leaves alone.
KeepMotor  == UNCHANGED <<motor_state, last_action, motor_action_delay>>
KeepTime   == /\ UNCHANGED <<timeVars, schedule_last_tfound, h_fired>>
              /\ h_call' = NoCall
KeepSensor == UNCHANGED <<sensor_ctrl, sensVars>>
Ignored    == /\ outbox' = <<>>
              /\ KeepMotor /\ KeepTime /\ KeepSensor
              /\ UNCHANGED <<schedule, debug_flags>>

---------------------------------------------------------------------------
\* init_eeprom: the default table.  The loop writes a pull-up and a
\* pull-down entry per day; the array is at least 14 entries long here, so
\* that the second write of a round is inside it as well.
eeprom_write_word(tab, i, val16) ==
  IF i < Len(tab) THEN [tab EXCEPT ![i + 1] = val16] ELSE tab

RECURSIVE init_eeprom_loop(_, _, _, _)
\* Mutant: no later pull-up on Sundays.
init_eeprom_loop_nosunday(tab, i, uptime, downtime) ==
  IF i < 7 * 2 /\ i < Len(tab)
    THEN init_eeprom_loop(
           eeprom_write_word(eeprom_write_word(tab, i, uptime),
                             i + 1, downtime),
           i + 2, (uptime + 24 * 60 * 6) % Word,
           (downtime + 24 * 60 * 6) % Word)
    ELSE [k \in 1..Len(tab) |-> IF k > i THEN 0 ELSE tab[k]]

init_eeprom_loop(tab, i, uptime, downtime) ==
  IF i < 7 * 2 /\ i < Len(tab)
    THEN LET up == IF i = 6 * 2 THEN (uptime + 60 * 6) % Word ELSE uptime
         IN  init_eeprom_loop(
               eeprom_write_word(eeprom_write_word(tab, i, up),
                                 i + 1, downtime),
               i + 2, (up + 24 * 60 * 6) % Word,
               (downtime + 24 * 60 * 6) % Word)
    ELSE [k \in 1..Len(tab) |-> IF k > i THEN 0 ELSE tab[k]]

init_eeprom(force, tab) ==
  IF force \/ tab[1] = 0
    THEN init_eeprom_loop(tab, 0,
                          (7 * 60 + 30) * 6 + SCHEDULE_ACTION_UP,
                          (18 * 60 + 15) * 6 + SCHEDULE_ACTION_DOWN)
    ELSE tab

---------------------------------------------------------------------------
\* process_shutter_cmd.

\* P_H61_SHUTTER_DRIVE: the error code of the answer and the action
\* triggered.
drive_reserved(msg) ==
  \/ D(msg, 7) > 1
  \/ \E k \in 9..15 : D(msg, k) # 0
  \/ Bit(D(msg, 8), 16)
  \/ Bit(D(msg, 8), 32)

\* Mutant: the reserved bit 0x10 of msg[8] is not looked at.
drive_error_lax(msg) ==
  IF D(msg, 7) > 1 \/ (\E k \in 9..15 : D(msg, k) # 0)
       \/ Bit(D(msg, 8), 32) THEN 1
  ELSE IF (D(msg, 8) \div 64) % 4 \in {2, 3} THEN 0
  ELSE 1

drive_error(msg) ==
  IF drive_reserved(msg) THEN 1
  ELSE IF (D(msg, 8) \div 64) % 4 \in {2, 3} THEN 0
  ELSE 1

drive_action(msg) ==
  IF drive_error(msg) # 0 THEN "nop"
  ELSE IF (D(msg, 8) \div 64) % 4 = 3 THEN action_up
  ELSE action_down

\* P_H61_SHUTTER_QRY_SCHEDULE: msg[13] of the answer for one entry.
schedule_action_byte(val16) ==
  IF val16 % 6 = SCHEDULE_ACTION_UP THEN 192
  ELSE IF val16 % 6 = SCHEDULE_ACTION_DOWN THEN 128
  ELSE 0

\* P_H61_SHUTTER_UPD_SCHEDULE: the test for a bad message, the reset
\* pattern, and the entry written otherwise.
upd_schedule_bad(msg) ==
  \/ D(msg, 8) # 0 \/ D(msg, 14) # 0 \/ D(msg, 15) # 0
  \/ D(msg, 9) # 1
  \/ D(msg, 10) >= Len(schedule)

\* Mutant: the reset pattern is taken without the test of msg[7].
upd_schedule_reset_any(msg) ==
  /\ D(msg, 9) = 16
  /\ \A k \in 10..13 : D(msg, k) = 240

upd_schedule_reset(msg) ==
  /\ D(msg, 7) = 240 /\ D(msg, 9) = 16
  /\ \A k \in 10..13 : D(msg, k) = 240

\* Mutant: the time is stored as sent, not rounded down to the minute.
upd_schedule_entry_exact(msg) ==
  ((D(msg, 11) * 256 + D(msg, 12))
     + (IF D(msg, 13) = 192 THEN SCHEDULE_ACTION_UP
        ELSE IF D(msg, 13) = 128 THEN SCHEDULE_ACTION_DOWN
        ELSE SCHEDULE_ACTION_NOP)) % Word

upd_schedule_entry(msg) ==
  (((D(msg, 11) * 256 + D(msg, 12)) \div 6) * 6
     + (IF D(msg, 13) = 192 THEN SCHEDULE_ACTION_UP
        ELSE IF D(msg, 13) = 128 THEN SCHEDULE_ACTION_DOWN
        ELSE SCHEDULE_ACTION_NOP)) % Word

process_shutter_cmd(msg) ==
  CASE msg.sub = P_H61_SHUTTER_QUERY ->
         /\ outbox' = <<[response(msg) EXCEPT
                           !.d = <<0, shutter_state, 0, 0, 0, 0, 0, 0, 0>>]>>
         /\ KeepMotor /\ KeepTime /\ KeepSensor
         /\ UNCHANGED <<schedule, debug_flags>>
    [] msg.sub = P_H61_SHUTTER_DRIVE ->
         /\ IF drive_action(msg) = "nop"
              THEN KeepMotor
              ELSE trigger_action(drive_action(msg))
         /\ outbox' =
              (IF drive_action(msg) = action_up
                 THEN send_dbgmsg("bus-act up")
               ELSE IF drive_action(msg) = action_down
                 THEN send_dbgmsg("bus-act dn")
               ELSE <<>>)
              \o <<[response(msg) EXCEPT
                      !.d = <<drive_error(msg), shutter_state,
                              0, 0, 0, 0, 0, 0, 0>>]>>
         /\ KeepTime /\ KeepSensor
         /\ UNCHANGED <<schedule, debug_flags>>
    [] msg.sub = P_H61_SHUTTER_QRY_SCHEDULE ->
         /\ outbox' =
              [i \in 1..Len(schedule) |->
                 [response(msg) EXCEPT
                    !.d = <<0, 0, Len(schedule) % 256, i - 1,
                            HiByte(EntryTime(schedule[i])),
                            LoByte(EntryTime(schedule[i])),
                            schedule_action_byte(schedule[i]), 0, 0>>]]
         /\ KeepMotor /\ KeepTime /\ KeepSensor
         /\ UNCHANGED <<schedule, debug_flags>>
    [] msg.sub = P_H61_SHUTTER_UPD_SCHEDULE ->
         /\ schedule' =
              IF upd_schedule_bad(msg)
                THEN IF upd_schedule_reset(msg)
                       THEN init_eeprom(TRUE, schedule)
                       ELSE schedule
                ELSE [schedule EXCEPT
                        ![D(msg, 10) + 1] = upd_schedule_entry(msg)]
         /\ outbox' = <<>>
         /\ h_call' = NoCall
         /\ h_fired' = IF schedule' # schedule THEN {} ELSE h_fired
         /\ UNCHANGED <<timeVars, schedule_last_tfound, debug_flags>>
         /\ KeepMotor /\ KeepSensor
    [] OTHER -> Ignored

\* Mutant: a request while one is active starts the conversion again.
process_sensor_cmd_rearm(msg) ==
  /\ IF msg.sub = P_H61_SENSOR_TEMPERATURE
       THEN /\ sensor_ctrl' =
                 IF sensor_ctrl.active # 0
                      /\ (msg.src[1] # sensor_ctrl.addr_hi
                            \/ msg.src[2] # sensor_ctrl.addr_lo)
                   THEN [active |-> 5, addr_hi |-> 255, addr_lo |-> 255]
                   ELSE [active |-> 5, addr_hi |-> msg.src[1],
                         addr_lo |-> msg.src[2]]
            /\ sensor_action_delay' = ConvertTicks
            /\ sensor_action_event' = FALSE
       ELSE KeepSensor
  /\ outbox' = <<>>
  /\ KeepMotor /\ KeepTime
  /\ UNCHANGED <<schedule, debug_flags>>

\* process_sensor_cmd: a request while one is active only may switch the
\* answer to broadcast; otherwise the conversion is started with five tries
\* and the delay armed.  The two stores to the ISR variables are one step
\* here: a tick between them leaves the same state as a tick after them.
process_sensor_cmd(msg) ==
  /\ IF msg.sub = P_H61_SENSOR_TEMPERATURE
       THEN IF sensor_ctrl.active # 0
              THEN /\ sensor_ctrl' =
                        IF msg.src[1] # sensor_ctrl.addr_hi
                             \/ msg.src[2] # sensor_ctrl.addr_lo
                          THEN [sensor_ctrl EXCEPT !.addr_hi = 255,
                                                   !.addr_lo = 255]
                          ELSE sensor_ctrl
                   /\ UNCHANGED sensVars
              ELSE /\ sensor_ctrl' = [active |-> 5, addr_hi |-> msg.src[1],
                                      addr_lo |-> msg.src[2]]
                   /\ sensor_action_delay' = ConvertTicks
                   /\ sensor_action_event' = FALSE
       ELSE KeepSensor
  /\ outbox' = <<>>
  /\ KeepMotor /\ KeepTime
  /\ UNCHANGED <<schedule, debug_flags>>

\* The scratchpad as read over the one-wire bus: the raw temperature, the
\* count remaining and whether the CRC byte matches.
Scratchpads == {[raw |-> 42, remain |-> 12, crc_ok |-> TRUE],
                [raw |-> 42, remain |-> 12, crc_ok |-> FALSE]}

\* t of send_sensor_result: tenths of a degree, or 0x7fff on a read error.
sensor_temperature(pad) ==
  IF pad.crc_ok
    THEN (pad.raw * 100 - 25 + ((16 - pad.remain) * 100) \div 16) \div 20
    ELSE 32767

\* The answer of send_sensor_result: group 1 of 1, the temperature of
\* sensor 0, no sensors 1 to 3.
sensor_result_msg(t) ==
  [proto |-> PROTOCOL_EBUS_H61,
   dst |-> <<sensor_ctrl.addr_hi, sensor_ctrl.addr_lo>>,
   src |-> config_nodeid,
   cmd |-> P_H61_SENSOR, marks |-> {P_H61_RESPMASK},
   sub |-> P_H61_SENSOR_TEMPERATURE, b6 |-> 0,
   d |-> <<17, HiByte(t % Word), LoByte(t % Word), 128, 0, 128, 0, 128, 0>>]

\* Mutant: the try counter is not counted down on a read error.
send_sensor_result_endless(pad) ==
  IF sensor_ctrl.active = 0
    THEN outbox' = <<>> /\ UNCHANGED <<sensor_ctrl, sensor_action_delay>>
  ELSE IF sensor_temperature(pad) # 32767
    THEN /\ outbox' = <<sensor_result_msg(sensor_temperature(pad))>>
         /\ sensor_ctrl' = [sensor_ctrl EXCEPT !.active = 0]
         /\ UNCHANGED sensor_action_delay
    ELSE /\ outbox' = send_dbgmsg("sens #4")
         /\ sensor_ctrl' = sensor_ctrl
         /\ sensor_action_delay' = RetryTicks
         /\ sensor_action_event' = FALSE

\* send_sensor_result: nothing without an active request; the answer goes
\* out on a good read or when the last try has failed; otherwise the
\* conversion is issued again and the delay armed.  (The caller has cleared
\* sensor_action_event.)
send_sensor_result(pad) ==
  IF sensor_ctrl.active = 0
    THEN outbox' = <<>> /\ UNCHANGED <<sensor_ctrl, sensor_action_delay>>
  ELSE IF sensor_temperature(pad) # 32767 \/ sensor_ctrl.active - 1 = 0
    THEN /\ outbox' = <<sensor_result_msg(sensor_temperature(pad))>>
         /\ sensor_ctrl' = [sensor_ctrl EXCEPT !.active = 0]
         /\ UNCHANGED sensor_action_delay
    ELSE /\ outbox' = send_dbgmsg("sens #4")
         /\ sensor_ctrl' = [sensor_ctrl EXCEPT !.active = @ - 1]
         /\ sensor_action_delay' = RetryTicks
         /\ sensor_action_event' = FALSE

\* process_ebus_h61: only messages directed to the node, requests only.
process_ebus_h61(msg) ==
  IF msg.dst # config_nodeid THEN Ignored
  ELSE IF msg.cmd = P_H61_SHUTTER /\ P_H61_RESPMASK \notin msg.marks
    THEN process_shutter_cmd(msg)
  ELSE IF msg.cmd = P_H61_SENSOR /\ P_H61_RESPMASK \notin msg.marks
    THEN process_sensor_cmd(msg)
  ELSE Ignored

\* Mutant: the test for the response marker is missing.
busctl_accepts_responses(msg) ==
  /\ ~(msg.src[1] = 255 \/ msg.src[2] = 255 \/ msg.src[2] = 0)
  /\ \/ msg.dst = config_nodeid
     \/ (msg.dst[1] = config_nodeid[1] \/ msg.dst[1] = 255)
          /\ msg.dst[2] = 255

\* process_ebus_busctl, the tests before the switch: no response, a proper
\* sender address, directed to the node or a broadcast.
busctl_accepts(msg) ==
  /\ P_BUSCTL_RESPMASK \notin msg.marks
  /\ ~(msg.src[1] = 255 \/ msg.src[2] = 255 \/ msg.src[2] = 0)
  /\ \/ msg.dst = config_nodeid
     \/ (msg.dst[1] = config_nodeid[1] \/ msg.dst[1] = 255)
          /\ msg.dst[2] = 255

process_ebus_busctl(msg) ==
  IF ~busctl_accepts(msg) THEN Ignored
  ELSE CASE msg.cmd = P_BUSCTL_TIME ->
         /\ time_message(D(msg, 7) * 256 + D(msg, 8),
                         IF Bit(msg.b6, 2) THEN D(msg, 9) ELSE 0,
                         current_time)
         /\ outbox' = IF h_call'.fire = action_up
                        THEN send_dbgmsg("sch-act up")
                      ELSE IF h_call'.fire = action_down
                        THEN send_dbgmsg("sch-act dn")
                      ELSE <<>>
         /\ KeepSensor
         /\ UNCHANGED debug_flags
    [] msg.cmd = P_BUSCTL_QRY_TIME ->
         /\ outbox' = <<[response(msg) EXCEPT
                           !.b6 = 0,
                           !.d = <<HiByte(get_current_fulltime.time),
                                   LoByte(get_current_fulltime.time),
                                   get_current_fulltime.deci,
                                   0, 0, 0, 0, 0, 0>>]>>
         /\ KeepMotor /\ KeepTime /\ KeepSensor
         /\ UNCHANGED <<schedule, debug_flags>>
    [] msg.cmd = P_BUSCTL_QRY_VERSION ->
         /\ outbox' = <<[response(msg) EXCEPT
                           !.sub = "NODETYPE_SHUTTER", !.b6 = 0,
                           !.d = Zero9]>>
         /\ KeepMotor /\ KeepTime /\ KeepSensor
         /\ UNCHANGED <<schedule, debug_flags>>
    [] msg.cmd = P_BUSCTL_SET_DEBUG ->
         /\ debug_flags' = msg.b6
         /\ outbox' = <<>>
         /\ KeepMotor /\ KeepTime /\ KeepSensor
         /\ UNCHANGED schedule
    [] msg.cmd = P_BUSCTL_QRY_DEBUG ->
         /\ outbox' = <<[response(msg) EXCEPT
                           !.b6 = debug_flags, !.d = Zero9]>>
         /\ KeepMotor /\ KeepTime /\ KeepSensor
         /\ UNCHANGED <<schedule, debug_flags>>
    [] OTHER -> Ignored

\* main: the switch on msg[0].
process_message(msg) ==
  CASE msg.proto = PROTOCOL_EBUS_BUSCTL -> process_ebus_busctl(msg)
    [] msg.proto = PROTOCOL_EBUS_H61 -> process_ebus_h61(msg)
    [] OTHER -> Ignored

---------------------------------------------------------------------------
\* The messages of the bus that the node is shown.
AddrA == <<1, 2>>
AddrB == <<1, 3>>
AddrOther == <<1, 18>>

H61Msg(src, dst, cmd, marks, sub, d) ==
  [proto |-> PROTOCOL_EBUS_H61, dst |-> dst, src |-> src, cmd |-> cmd,
   marks |-> marks, sub |-> sub, b6 |-> 0, d |-> d]

BusMsg(src, dst, cmd, marks, b6, d) ==
  [proto |-> PROTOCOL_EBUS_BUSCTL, dst |-> dst, src |-> src, cmd |-> cmd,
   marks |-> marks, sub |-> "none", b6 |-> b6, d |-> d]

\* msg[7..15] of drive commands: up and down, shutter 2, reserved bytes,
\* reserved bit 0x10, bit 0x20, directions 0x40 and 0x00, a percentage.
DriveData ==
  {<<0, 192, 0, 0, 0, 0, 0, 0, 0>>, <<1, 128, 0, 0, 0, 0, 0, 0, 0>>,
   <<2, 192, 0, 0, 0, 0, 0, 0, 0>>, <<0, 192, 0, 0, 0, 0, 0, 0, 1>>,
   <<0, 128, 1, 0, 0, 0, 0, 0, 0>>, <<0, 208, 0, 0, 0, 0, 0, 0, 0>>,
   <<0, 160, 0, 0, 0, 0, 0, 0, 0>>, <<0, 64, 0, 0, 0, 0, 0, 0, 0>>,
   <<0, 0, 0, 0, 0, 0, 0, 0, 0>>, <<0, 197, 0, 0, 0, 0, 0, 0, 0>>}

\* msg[7..15] of schedule updates: entry 0 := Monday 07:28 pull-up (sent
\* as 07:28:50); index out of range, count 2, reserved bytes, a pattern one
\* byte off the reset pattern; the reset pattern.
UpdGood  == {<<0, 0, 1, 0, 10, 133, 192, 0, 0>>}
UpdBad   == {<<0, 0, 1, DimSchedule, 10, 133, 192, 0, 0>>,
             <<0, 0, 2, 0, 10, 133, 192, 0, 0>>,
             <<0, 1, 1, 0, 10, 133, 192, 0, 0>>,
             <<0, 0, 1, 0, 10, 133, 192, 0, 1>>,
             <<0, 0, 16, 240, 240, 240, 240, 0, 0>>}
UpdReset == {<<240, 0, 16, 240, 240, 240, 240, 0, 0>>,
             <<240, 7, 16, 240, 240, 240, 240, 9, 9>>}

ShutterRequests ==
  {H61Msg(AddrA, config_nodeid, P_H61_SHUTTER, {}, sub, Zero9) :
     sub \in {P_H61_SHUTTER_QUERY, P_H61_SHUTTER_QRY_TIMINGS,
              P_H61_SHUTTER_UPD_TIMINGS, P_H61_SHUTTER_QRY_SCHEDULE,
              "unknown"}}
  \cup {H61Msg(AddrA, config_nodeid, P_H61_SHUTTER, {},
               P_H61_SHUTTER_DRIVE, d) : d \in DriveData}
  \cup {H61Msg(AddrB, config_nodeid, P_H61_SHUTTER, {},
               P_H61_SHUTTER_UPD_SCHEDULE, d) :
          d \in UpdGood \cup UpdBad \cup UpdReset}

SensorRequests ==
  {H61Msg(src, config_nodeid, P_H61_SENSOR, {}, P_H61_SENSOR_TEMPERATURE,
          Zero9) : src \in {AddrA, AddrB}}
  \cup {H61Msg(AddrA, config_nodeid, P_H61_SENSOR, {}, "unknown", Zero9)}

\* H61 messages the dispatcher drops: an unknown command, responses,
\* messages to another node and to the broadcast addresses.
H61Dropped ==
  {H61Msg(AddrA, config_nodeid, "unknown", {}, P_H61_SHUTTER_QUERY, Zero9),
   H61Msg(AddrA, config_nodeid, P_H61_SHUTTER, {P_H61_RESPMASK},
          P_H61_SHUTTER_DRIVE, <<0, 192, 0, 0, 0, 0, 0, 0, 0>>),
   H61Msg(AddrA, config_nodeid, P_H61_SENSOR, {P_H61_RESPMASK},
          P_H61_SENSOR_TEMPERATURE, Zero9)}
  \cup {H61Msg(AddrA, dst, P_H61_SHUTTER, {}, P_H61_SHUTTER_QUERY, Zero9) :
          dst \in {AddrOther, <<255, 255>>, <<1, 255>>}}

\* The TIME message: Monday 07:30:05, with the decisecond flag.
TimeData == {[b6 |-> 2, d |-> <<10, 140, 50, 0, 0, 0, 0, 0, 0>>]}

BusctlRequests ==
  {BusMsg(AddrA, <<255, 255>>, P_BUSCTL_TIME, {}, t.b6, t.d) :
     t \in TimeData}
  \cup {BusMsg(AddrA, config_nodeid, cmd, {}, 0, Zero9) :
          cmd \in {P_BUSCTL_QRY_VERSION, P_BUSCTL_QRY_DEBUG, "unknown"}}
  \cup {BusMsg(AddrA, config_nodeid, P_BUSCTL_SET_DEBUG, {}, b6, Zero9) :
          b6 \in {0, 1}}
  \cup {BusMsg(AddrB, dst, P_BUSCTL_QRY_TIME, {}, 0, Zero9) :
          dst \in {config_nodeid, <<255, 255>>, <<1, 255>>}}

\* Busctl messages the dispatcher drops: responses, bad sender addresses,
\* messages to another node or to the broadcast of another segment.
BusctlDropped ==
  {BusMsg(AddrA, config_nodeid, cmd, {P_BUSCTL_RESPMASK}, 0, Zero9) :
     cmd \in {P_BUSCTL_QRY_TIME, P_BUSCTL_SET_DEBUG}}
  \cup {BusMsg(src, config_nodeid, P_BUSCTL_QRY_TIME, {}, 0, Zero9) :
          src \in {<<255, 2>>, <<1, 255>>, <<1, 0>>}}
  \cup {BusMsg(AddrA, dst, P_BUSCTL_QRY_TIME, {}, 0, Zero9) :
          dst \in {AddrOther, <<2, 255>>, <<255, 17>>}}
  \cup {BusMsg(<<1, 0>>, <<255, 255>>, P_BUSCTL_TIME, {}, 2,
               <<10, 140, 50, 0, 0, 0, 0, 0, 0>>)}

OtherProtocol ==
  {[proto |-> "unknown", dst |-> config_nodeid, src |-> AddrA,
    cmd |-> P_H61_SHUTTER, marks |-> {}, sub |-> P_H61_SHUTTER_DRIVE,
    b6 |-> 0, d |-> <<0, 192, 0, 0, 0, 0, 0, 0, 0>>]}

Requests == ShutterRequests \cup SensorRequests \cup H61Dropped
            \cup BusctlRequests \cup BusctlDropped \cup OtherProtocol

\* The requests that are answered, with some that are not addressed to the
\* node: one of each kind.
ReplyRequests ==
  {H61Msg(AddrA, config_nodeid, P_H61_SHUTTER, {}, sub, Zero9) :
     sub \in {P_H61_SHUTTER_QUERY, P_H61_SHUTTER_QRY_SCHEDULE}}
  \cup {H61Msg(AddrB, config_nodeid, P_H61_SHUTTER, {},
               P_H61_SHUTTER_DRIVE, d) :
          d \in {<<0, 192, 0, 0, 0, 0, 0, 0, 0>>,
                 <<0, 64, 0, 0, 0, 0, 0, 0, 0>>}}
  \cup {H61Msg(src, config_nodeid, P_H61_SENSOR, {},
               P_H61_SENSOR_TEMPERATURE, Zero9) : src \in {AddrA, AddrB}}
  \cup {H61Msg(AddrA, dst, P_H61_SHUTTER, {}, P_H61_SHUTTER_QUERY, Zero9) :
          dst \in {AddrOther, <<255, 255>>}}
  \cup {BusMsg(AddrA, config_nodeid, cmd, {}, 0, Zero9) :
          cmd \in {P_BUSCTL_QRY_VERSION, P_BUSCTL_QRY_DEBUG}}
  \cup {BusMsg(AddrB, dst, P_BUSCTL_QRY_TIME, {}, 0, Zero9) :
          dst \in {config_nodeid, <<255, 255>>, <<1, 255>>, AddrOther,
                   <<2, 255>>}}

\* The messages of the time synchronisation scenario.
SyncRequests ==
  {BusMsg(AddrA, <<255, 255>>, P_BUSCTL_TIME, {}, 2,
          <<10, 140, 50, 0, 0, 0, 0, 0, 0>>),
   H61Msg(AddrA, config_nodeid, P_H61_SHUTTER, {}, P_H61_SHUTTER_QUERY,
          Zero9)}

---------------------------------------------------------------------------
\* Observers of the message specifications.
\* The record of the request is dropped with the step after its answer.
SensRest == h_sens' = IF sensor_ctrl.active = 0 THEN NoSens ELSE h_sens

IsTemperatureRequest(msg) ==
  /\ msg.proto = PROTOCOL_EBUS_H61 /\ msg.dst = config_nodeid
  /\ msg.cmd = P_H61_SENSOR /\ P_H61_RESPMASK \notin msg.marks
  /\ msg.sub = P_H61_SENSOR_TEMPERATURE

IsSensorAnswer(m) == m.proto = PROTOCOL_EBUS_H61 /\ m.cmd = P_H61_SENSOR

\* The answers among the messages sent (debug messages are not answers).
Answers(box) == {i \in 1..Len(box) : box[i].proto # PROTOCOL_EBUS_DBGMSG}

\* The boot: hardware_setup and init_eeprom (0) with the table found in the
\* EEPROM.
Boot ==
  /\ UNCHANGED auxVars
  /\ ~booted
  /\ booted' = TRUE
  /\ schedule' = init_eeprom(FALSE, schedule)
  /\ UNCHANGED <<motorVars, motorHist, timeVars, schedule_last_tfound,
                 schedHist, clockVars, sensVars, sensor_ctrl, debug_flags,
                 outbox, h_req, h_sens, h_sync>>

\* The clock of an idle node without a set time runs from boot to Monday
\* 07:29:50 (the once-a-minute evaluations in between return at the clock
\* check).
ClockRun ==
  /\ UNCHANGED auxVars
  /\ booted /\ ~time_has_been_set /\ current_time = 0
  /\ motor_state = motor_state_off /\ motor_action_delay = 0
  /\ ~motor_action_event
  /\ current_time' = (7 * 60 + 29) * 6 + 5
  /\ current_clock' = 0
  /\ outbox' = <<>> /\ h_req' = NoMsg /\ h_call' = NoCall
  /\ UNCHANGED <<motorVars, motorHist, time_has_been_set, schedVars,
                 ten_due, h_run, h_fired, clockVars, sensVars, sensor_ctrl,
                 debug_flags, booted, h_sync>>
  /\ SensRest

\* The 10 ms tick with no key pressed and no full second.
TickIsr ==
  /\ UNCHANGED <<loopVars, frameVars, keyVars, h_weeks>>
  /\ h_trig' = IF h_trig = <<>> \/ h_trig[Len(h_trig)] = "tick"
                 THEN h_trig ELSE Append(h_trig, "tick")
  /\ booted
  /\ ticker_bottom(FALSE, FALSE, FALSE)
  /\ outbox' = <<>> /\ h_req' = NoMsg /\ h_call' = NoCall
  /\ UNCHANGED <<pc, motor_state, last_action, shutter_state, newdelay,
                 MOTOR_on, MOTOR_down, motorHist, timeVars, schedVars,
                 ten_due, h_run, h_fired, clockVars, sensor_ctrl,
                 debug_flags, booted, h_sync>>
  /\ SensRest

\* Main loop: wakeup_main = 0; ... if (motor_action_event) { ... }
MainMotor ==
  /\ UNCHANGED <<loopVars, frameVars, keyVars, h_weeks>>
  /\ h_trig' = <<>>
  /\ booted /\ motor_action_event
  /\ wakeup_main' = FALSE
  /\ motor_action_event' = FALSE
  /\ LET m == motor_action IN
       /\ motor_state' = m.state
       /\ MOTOR_on' = m.on
       /\ MOTOR_down' = m.down
       /\ shutter_state' = m.sh
       /\ newdelay' = m.delay
       /\ motor_action_delay' = m.delay
       /\ h_sync' = IF h_sync = "fired" /\ Has(m.ran, motor_state_up)
                      THEN "running"
                    ELSE IF h_sync = "running"
                            /\ Has(m.ran, motor_state_up_ready)
                      THEN "done"
                    ELSE h_sync
  /\ outbox' = <<>> /\ h_req' = NoMsg /\ h_call' = NoCall
  /\ UNCHANGED <<one_second_event, key_s2_event, key_s3_event, pc,
                 last_action, motorHist, timeVars, schedVars, ten_due,
                 h_run, h_fired, clockVars, sensVars, sensor_ctrl,
                 debug_flags, booted>>
  /\ SensRest

\* Main loop: wakeup_main = 0; ... if (sensor_action_event) { ... }
MainSensor ==
  /\ UNCHANGED auxVars
  /\ booted /\ sensor_action_event
  /\ wakeup_main' = FALSE
  /\ sensor_action_event' = FALSE
  /\ \E pad \in Scratchpads : send_sensor_result(pad)
  /\ h_sens' = [h_sens EXCEPT
                  !.reads = @ + (IF sensor_ctrl.active # 0 THEN 1 ELSE 0),
                  !.answers = @ + Cardinality(Answers(outbox'))]
  /\ h_req' = NoMsg /\ h_call' = NoCall
  /\ UNCHANGED <<one_second_event, key_s2_event, key_s3_event,
                 motor_action_delay, motor_action_event, pc, motor_state,
                 last_action, shutter_state, newdelay, MOTOR_on, MOTOR_down,
                 motorHist, timeVars, schedVars, ten_due, h_run, h_fired,
                 clockVars, debug_flags, booted, h_sync>>

\* Main loop: wakeup_main = 0; ... msg = csma_get_message (); the message
\* is dispatched.
MainMessage(S) ==
  /\ UNCHANGED auxVars
  /\ booted
  /\ wakeup_main' = FALSE
  /\ \E msg \in S :
       /\ process_message(msg)
       /\ h_req' = msg
       /\ h_sens' =
            IF sensor_ctrl.active = 0 /\ sensor_ctrl'.active # 0
              THEN [NoSens EXCEPT !.first = msg.src]
            ELSE IF sensor_ctrl.active # 0 /\ IsTemperatureRequest(msg)
                      /\ msg.src # h_sens.first
              THEN [h_sens EXCEPT !.others = TRUE]
            ELSE IF sensor_ctrl.active = 0 THEN NoSens
            ELSE h_sens
  /\ h_sync' = IF h_call'.fire = action_up /\ h_call'.told # 0
                 THEN "fired"
               ELSE IF h_call'.fire = action_down
                       \/ motor_state' # motor_state
                       \/ last_action' # last_action
                       \/ motor_action_delay' # motor_action_delay
                 THEN "none"
               ELSE h_sync
  /\ UNCHANGED <<one_second_event, key_s2_event, key_s3_event,
                 motor_action_event, pc, shutter_state, newdelay, MOTOR_on,
                 MOTOR_down, motorHist, ten_due, h_run, clockVars, booted>>

\* The tables found in the EEPROM at boot: erased, or the defaults with
\* entry 0 moved to Monday 07:28 by an earlier update.
EepromTables ==
  {[i \in 1..DimSchedule |-> 0],
   [init_eeprom(TRUE, [i \in 1..DimSchedule |-> 0]) EXCEPT ![1] = 2689]}

InitMsg ==
  /\ InitMotor /\ InitTime /\ InitSchedHist /\ InitClock /\ InitIdle
  /\ ten_seconds_counter = 0
  /\ schedule_last_tfound = 0
  /\ schedule \in EepromTables
  /\ booted = FALSE

MsgAny    == MainMessage(Requests)
MsgReply  == MainMessage(ReplyRequests)
MsgSync   == MainMessage(SyncRequests)
MsgSensor == MainMessage(SensorRequests)

\* The dispatch of one message after another, without the tick.
NextMsg == Boot \/ MsgAny

SpecMsg == InitMsg /\ [][NextMsg]_vars

\* Schedule updates followed by schedule queries: the first and the last
\* entry of the table; times at both ends of the 16 bit range, on and off
\* the full minute; the two action bytes, 0 and an undefined one.
RoundIndex == {0, DimSchedule - 1}
RoundTimes == {0, 7, 2693, 65531, 65535}
RoundBytes == {192, 128, 0, 64}

RoundUpdates ==
  {H61Msg(AddrB, config_nodeid, P_H61_SHUTTER, {},
          P_H61_SHUTTER_UPD_SCHEDULE,
          <<0, 0, 1, i, HiByte(t), LoByte(t), a, 0, 0>>) :
     i \in RoundIndex, t \in RoundTimes, a \in RoundBytes}

RoundQueries ==
  {H61Msg(AddrA, config_nodeid, P_H61_SHUTTER, {},
          P_H61_SHUTTER_QRY_SCHEDULE, Zero9)}

RoundUpdate == MainMessage(RoundUpdates)
RoundQuery  == MainMessage(RoundQueries)

NextRound == Boot \/ RoundUpdate \/ RoundQuery

SpecRound == InitMsg /\ [][NextRound]_vars

\* The schedule over whole weeks.  MaxWeeks is the number of weekly wraps
\* followed after the clock was set.  The tables: one with two entries in
\* the minute 00:01 behind the entry of 00:02; one with every entry alone in
\* its minute, out of order, with entries in the first and in the last
\* minute of the week, a no-op entry and an entry behind the end marker; the
\* table init_eeprom writes.
MaxWeeks == 2

WeekTable(head) ==
  [i \in 1..DimSchedule |-> IF i <= Len(head) THEN head[i] ELSE 0]

WeekTables ==
  {WeekTable(<<13, 11, 7>>),
   WeekTable(<<WeekLen - 1, 1, 29, 13, 18, 0, 43>>),
   init_eeprom(TRUE, WeekTable(<<>>))}

\* The TIME message that sets the clock, once: Monday 00:05:00.
WeekSet ==
  /\ booted /\ ~time_has_been_set
  /\ time_message(30, 0, current_time)
  /\ UNCHANGED <<wakeup_main, one_second_event, key_s2_event, key_s3_event,
                 motor_action_event, pc, shutter_state, newdelay, MOTOR_on,
                 MOTOR_down, motorHist, ten_due, h_run, clockVars>>
  /\ UNCHANGED <<sensVars, msgVars, auxVars>>

\* The 10 s roll-over of the tick ISR, the tenth second of the period
\* before having been served.
WeekRoll ==
  /\ time_has_been_set /\ ~ten_due
  /\ h_weeks < MaxWeeks
  /\ current_time' = next_time(current_time)
  /\ h_weeks' = IF current_time' = 0 THEN h_weeks + 1 ELSE h_weeks
  /\ ten_due' = TRUE
  /\ h_call' = NoCall
  /\ h_fired' = IF current_time' = 0 THEN {} ELSE h_fired
  /\ UNCHANGED <<current_clock, time_has_been_set, schedVars, h_run,
                 motorVars, motorHist, clockVars>>
  /\ UNCHANGED <<sensVars, msgVars, loopVars, frameVars, keyVars, h_trig>>

InitWeek ==
  /\ InitMotor /\ InitTime /\ InitSchedHist /\ InitClock /\ InitIdle
  /\ ten_seconds_counter = 0
  /\ booted = TRUE
  /\ schedule_last_tfound = 0
  /\ schedule \in WeekTables

NextWeek == WeekSet \/ WeekRoll \/ Housekeeping

SpecWeek == InitWeek /\ [][NextWeek]_vars

\* The plain actions: what trigger_action switches on after the toggle keys
\* have been resolved.
PlainActions == {action_none, action_up, action_down}
MaxTrig == 3
IsCall(x) == x \in PlainActions
TrigCalls == SelectSeq(h_trig, IsCall)

\* A call of trigger_action with a plain action, as process_schedule makes
\* it (up, down) and as the goto of a toggle key ends (none, up, down).
TrigCall ==
  /\ booted
  /\ Len(TrigCalls) < MaxTrig
  /\ \E a \in PlainActions :
       /\ trigger_action(a)
       /\ h_trig' = Append(h_trig, a)
  /\ UNCHANGED <<wakeup_main, one_second_event, key_s2_event, key_s3_event,
                 motor_action_event, pc, shutter_state, newdelay, MOTOR_on,
                 MOTOR_down, motorHist, timeVars, schedVars, schedHist,
                 clockVars, sensVars, msgVars>>
  /\ UNCHANGED <<loopVars, frameVars, keyVars, h_weeks>>

\* Calls of trigger_action with the tick and the motor step of the main
\* loop in between.
NextTrig == TrigCall \/ TickIsr \/ MainMotor

SpecTrig == Init /\ [][NextTrig]_vars

\* One message of every kind that reads or writes the persistent data:
\* status and schedule query, drive, schedule updates (the first and the
\* last entry, an index out of range, the reset pattern with msg[7] = 0,
\* the reset pattern), a sensor request, TIME, set and query debug.
DataUpd ==
  {<<0, 0, 1, 0, 10, 133, 192, 0, 0>>,
   <<0, 0, 1, DimSchedule - 1, 10, 133, 128, 0, 0>>,
   <<0, 0, 1, DimSchedule, 10, 133, 192, 0, 0>>,
   <<0, 0, 16, 240, 240, 240, 240, 0, 0>>,
   <<240, 0, 16, 240, 240, 240, 240, 0, 0>>}

DataRequests ==
  {H61Msg(AddrA, config_nodeid, P_H61_SHUTTER, {}, sub, Zero9) :
     sub \in {P_H61_SHUTTER_QUERY, P_H61_SHUTTER_QRY_SCHEDULE}}
  \cup {H61Msg(AddrA, config_nodeid, P_H61_SHUTTER, {},
               P_H61_SHUTTER_DRIVE, <<0, 192, 0, 0, 0, 0, 0, 0, 0>>)}
  \cup {H61Msg(AddrB, config_nodeid, P_H61_SHUTTER, {},
               P_H61_SHUTTER_UPD_SCHEDULE, d) : d \in DataUpd}
  \cup {H61Msg(AddrA, config_nodeid, P_H61_SENSOR, {},
               P_H61_SENSOR_TEMPERATURE, Zero9)}
  \cup {BusMsg(AddrA, <<255, 255>>, P_BUSCTL_TIME, {}, t.b6, t.d) :
          t \in TimeData}
  \cup {BusMsg(AddrA, config_nodeid, P_BUSCTL_SET_DEBUG, {}, b6, Zero9) :
          b6 \in {0, 1}}
  \cup {BusMsg(AddrA, config_nodeid, P_BUSCTL_QRY_DEBUG, {}, 0, Zero9)}

MsgData == MainMessage(DataRequests)

\* The message handlers with the tick and the sensor step of the main loop
\* in between.
NextData == Boot \/ MsgData \/ TickIsr \/ MainSensor

SpecData == InitMsg /\ [][NextData]_vars

\* The answered requests with the tick and the main loop steps in between.
NextReply == Boot \/ TickIsr \/ MainMotor \/ MainSensor \/ MsgReply

SpecReply == InitMsg /\ [][NextReply]_vars

NextSync == Boot \/ ClockRun \/ TickIsr \/ MainMotor \/ MsgSync

SpecSync == InitMsg /\ [][NextSync]_vars

\* The sensor machinery alone.  The timer interrupt keeps coming and the
\* main loop runs whenever an event is pending.
NextSensor == Boot \/ TickIsr \/ MainSensor \/ MsgSensor

SpecSensor ==
  /\ InitMsg /\ [][NextSensor]_vars
  /\ WF_vars(Boot) /\ WF_vars(TickIsr) /\ WF_vars(MainSensor)

---------------------------------------------------------------------------
\* The main loop and the tick with fairness: the timer interrupt keeps
\* coming (whether a key is pressed or not) and the main loop keeps running.
\* The keys, the schedule and the bus are the sources of the triggers here;
\* the ages of the port writes are not followed.
RunTickOf(k2, k3) ==
  /\ ticker_bottom(FALSE, k2, k3)
  /\ UNCHANGED <<pc, motor_state, last_action, shutter_state, newdelay,
                 MOTOR_on, MOTOR_down, motorHist>>
  /\ UNCHANGED <<timeVars, schedVars, schedHist, clockVars, msgVars,
                 auxVars>>

RunTick == \E k2 \in BOOLEAN, k3 \in BOOLEAN : RunTickOf(k2, k3)

MainStep ==
  \/ MainWait \/ MainWake \/ KeyS2 \/ KeyS2Clr \/ KeyS3 \/ KeyS3Clr
  \/ MotorCheck \/ MotorRun \/ MotorStore \/ Second \/ Message

NextRun == RunTick \/ MainStep

SpecRun ==
  /\ Init /\ [][NextRun]_vars
  /\ WF_vars(RunTickOf(FALSE, FALSE)) /\ WF_vars(MainStep)

---------------------------------------------------------------------------
\* The main loop pass by pass, one step per handler, with the timer tick
\* and the receiver of the link layer in between.

\* Bound of SpecLoop: the ticks followed.
MaxLoopTicks == 3

\* The message the receiver hands over in SpecLoop: a temperature request.
LoopRequests ==
  {H61Msg(AddrA, config_nodeid, P_H61_SENSOR, {}, P_H61_SENSOR_TEMPERATURE,
          Zero9)}

\* The messages of SpecRecv, one for each way through the dispatcher: a time
\* query (bus control), a temperature request and a status query (device
\* protocol), a status query for another node, a malformed schedule update
\* and a message of another protocol.
RecvRequests ==
  {BusMsg(AddrA, config_nodeid, P_BUSCTL_QRY_TIME, {}, 0, Zero9),
   H61Msg(AddrA, config_nodeid, P_H61_SENSOR, {}, P_H61_SENSOR_TEMPERATURE,
          Zero9),
   H61Msg(AddrA, config_nodeid, P_H61_SHUTTER, {}, P_H61_SHUTTER_QUERY,
          Zero9),
   H61Msg(AddrA, AddrOther, P_H61_SHUTTER, {}, P_H61_SHUTTER_QUERY, Zero9),
   H61Msg(AddrB, config_nodeid, P_H61_SHUTTER, {},
          P_H61_SHUTTER_UPD_SCHEDULE, <<0, 0, 2, 0, 10, 133, 192, 0, 0>>),
   [proto |-> "other", dst |-> config_nodeid, src |-> AddrA,
    cmd |-> P_H61_SHUTTER, marks |-> {}, sub |-> P_H61_SHUTTER_QUERY,
    b6 |-> 0, d |-> Zero9]}

\* What no step of this specification touches.
LoopRest == UNCHANGED <<newdelay, motorHist, ten_due, h_run, clockVars,
                        booted, h_sens, h_sync, frameVars, keyVars,
                        h_weeks, h_trig>>

\* The 10 ms tick: the full second and the debounced keys are inputs.
LoopTick ==
  /\ h_ticks < MaxLoopTicks
  /\ h_ticks' = h_ticks + 1
  /\ \E sec \in BOOLEAN, k2 \in BOOLEAN, k3 \in BOOLEAN :
       ticker_bottom(sec, k2, k3)
  /\ UNCHANGED <<pc, motor_state, last_action, shutter_state, MOTOR_on,
                 MOTOR_down, timeVars, schedVars, h_call, h_fired,
                 sensor_ctrl, debug_flags, outbox, h_req,
                 ten_seconds_counter, rx_buf, rx_held, h_pass, h_rel>>
  /\ LoopRest

\* The receiver (link layer): a frame with a valid CRC is stored when the
\* buffer is free and has been released, and the main loop is woken.
RxArrive(S) ==
  /\ rx_buf = NoMsg /\ ~rx_held
  /\ rx_buf' \in S
  /\ wakeup_main' = TRUE
  /\ UNCHANGED <<one_second_event, key_s2_event, key_s3_event,
                 motor_action_delay, motor_action_event, pc, motor_state,
                 last_action, shutter_state, MOTOR_on, MOTOR_down, timeVars,
                 schedVars, h_call, h_fired, sensVars, sensor_ctrl,
                 debug_flags, outbox, h_req, ten_seconds_counter, rx_held,
                 h_pass, h_rel, h_ticks>>
  /\ LoopRest

\* while (!wakeup_main) sleep; wakeup_main = 0;
LoopWake ==
  /\ pc = "wait" /\ wakeup_main
  /\ wakeup_main' = FALSE
  /\ pc' = "key_s2"
  /\ outbox' = <<>> /\ h_req' = NoMsg /\ h_call' = NoCall
  /\ UNCHANGED <<one_second_event, key_s2_event, key_s3_event,
                 motor_action_delay, motor_action_event, motor_state,
                 last_action, shutter_state, MOTOR_on, MOTOR_down, timeVars,
                 schedVars, h_fired, sensVars, sensor_ctrl, debug_flags,
                 ten_seconds_counter, rx_buf, rx_held, h_pass, h_rel>>
  /\ UNCHANGED h_ticks
  /\ LoopRest

\* if (key_s2_event) { send_dbgmsg; trigger_action (action_down_key);
\*                     key_s2_event = key_s3_event = 0; }
LoopKeyS2 ==
  /\ pc = "key_s2"
  /\ pc' = "key_s3"
  /\ IF key_s2_event
       THEN /\ outbox' = send_dbgmsg("key-act down")
            /\ trigger_action(action_down_key)
            /\ key_s2_event' = FALSE /\ key_s3_event' = FALSE
            /\ h_pass' = Append(h_pass, "key_s2")
       ELSE /\ outbox' = <<>>
            /\ UNCHANGED <<motor_state, last_action, motor_action_delay,
                           key_s2_event, key_s3_event, h_pass>>
  /\ h_req' = NoMsg /\ h_call' = NoCall
  /\ UNCHANGED <<wakeup_main, one_second_event, motor_action_event,
                 shutter_state, MOTOR_on, MOTOR_down, timeVars, schedVars,
                 h_fired, sensVars, sensor_ctrl, debug_flags,
                 ten_seconds_counter, rx_buf, rx_held, h_rel>>
  /\ UNCHANGED h_ticks
  /\ LoopRest

\* if (key_s3_event) { send_dbgmsg; trigger_action (action_up_key);
\*                     key_s3_event = 0; }
LoopKeyS3 ==
  /\ pc = "key_s3"
  /\ pc' = "motor"
  /\ IF key_s3_event
       THEN /\ outbox' = send_dbgmsg("key-act up")
            /\ trigger_action(action_up_key)
            /\ key_s3_event' = FALSE
            /\ h_pass' = Append(h_pass, "key_s3")
       ELSE /\ outbox' = <<>>
            /\ UNCHANGED <<motor_state, last_action, motor_action_delay,
                           key_s3_event, h_pass>>
  /\ h_req' = NoMsg /\ h_call' = NoCall
  /\ UNCHANGED <<wakeup_main, one_second_event, key_s2_event,
                 motor_action_event, shutter_state, MOTOR_on, MOTOR_down,
                 timeVars, schedVars, h_fired, sensVars, sensor_ctrl,
                 debug_flags, ten_seconds_counter, rx_buf, rx_held, h_rel>>
  /\ UNCHANGED h_ticks
  /\ LoopRest

\* if (motor_action_event)
\*   { motor_action_event = 0; motor_action_delay = motor_action (); }
LoopMotor ==
  /\ pc = "motor"
  /\ pc' = "sensor"
  /\ IF motor_action_event
       THEN /\ motor_action_event' = FALSE
            /\ LET m == motor_action IN
                 /\ motor_state' = m.state
                 /\ MOTOR_on' = m.on
                 /\ MOTOR_down' = m.down
                 /\ shutter_state' = m.sh
                 /\ motor_action_delay' = m.delay
            /\ h_pass' = Append(h_pass, "motor")
       ELSE UNCHANGED <<motor_action_event, motor_state, MOTOR_on,
                        MOTOR_down, shutter_state, motor_action_delay,
                        h_pass>>
  /\ outbox' = <<>> /\ h_req' = NoMsg /\ h_call' = NoCall
  /\ UNCHANGED <<wakeup_main, one_second_event, key_s2_event, key_s3_event,
                 last_action, timeVars, schedVars, h_fired, sensVars,
                 sensor_ctrl, debug_flags, ten_seconds_counter, rx_buf,
                 rx_held, h_rel>>
  /\ UNCHANGED h_ticks
  /\ LoopRest

\* if (sensor_action_event)
\*   { sensor_action_event = 0; send_sensor_result (); }
LoopSensor ==
  /\ pc = "sensor"
  /\ pc' = "second"
  /\ IF sensor_action_event
       THEN /\ sensor_action_event' = FALSE
            /\ \E pad \in {p \in Scratchpads : p.crc_ok} :
                 send_sensor_result(pad)
            /\ h_pass' = Append(h_pass, "sensor")
       ELSE /\ outbox' = <<>>
            /\ UNCHANGED <<sensVars, sensor_ctrl, h_pass>>
  /\ h_req' = NoMsg /\ h_call' = NoCall
  /\ UNCHANGED <<wakeup_main, one_second_event, key_s2_event, key_s3_event,
                 motor_action_delay, motor_action_event, motor_state,
                 last_action, shutter_state, MOTOR_on, MOTOR_down, timeVars,
                 schedVars, h_fired, debug_flags, ten_seconds_counter,
                 rx_buf, rx_held, h_rel>>
  /\ UNCHANGED h_ticks
  /\ LoopRest

\* Mutant: the schedule is evaluated on every second that falls on a full
\* minute, not on the tenth only.
LoopSecond_everysecond ==
  /\ pc = "second"
  /\ pc' = "msg"
  /\ UNCHANGED <<timeVars, schedule>>
  /\ IF one_second_event
       THEN /\ one_second_event' = FALSE
            /\ h_pass' = Append(h_pass, "second")
            /\ ten_seconds_counter' =
                 IF ten_seconds_counter + 1 = 10 THEN 0
                 ELSE ten_seconds_counter + 1
            /\ IF current_time % 6 = 0
                 THEN Evaluate("periodic", current_time, 0)
                 ELSE /\ h_call' = NoCall
                      /\ UNCHANGED <<schedule_last_tfound, motor_state,
                                     last_action, motor_action_delay,
                                     h_fired>>
       ELSE /\ h_call' = NoCall
            /\ UNCHANGED <<one_second_event, h_pass, ten_seconds_counter,
                           schedule_last_tfound, motor_state, last_action,
                           motor_action_delay, h_fired>>
  /\ outbox' = IF h_call'.fire = action_up THEN send_dbgmsg("sch-act up")
               ELSE IF h_call'.fire = action_down
                 THEN send_dbgmsg("sch-act dn")
               ELSE <<>>
  /\ h_req' = NoMsg
  /\ UNCHANGED <<wakeup_main, key_s2_event, key_s3_event,
                 motor_action_event, shutter_state, MOTOR_on, MOTOR_down,
                 sensVars, sensor_ctrl, debug_flags, rx_buf, rx_held, h_rel>>
  /\ UNCHANGED h_ticks
  /\ LoopRest

\* if (one_second_event)
\*   { one_second_event = 0;
\*     if (++ten_seconds_counter == 10)
\*       { ten_seconds_counter = 0; t = get_current_time ();
\*         if (!(t % 6)) process_schedule (t, 0); } }
LoopSecond ==
  /\ pc = "second"
  /\ pc' = "msg"
  /\ UNCHANGED <<timeVars, schedule>>
  /\ IF one_second_event
       THEN /\ one_second_event' = FALSE
            /\ h_pass' = Append(h_pass, "second")
            /\ ten_seconds_counter' =
                 IF ten_seconds_counter + 1 = 10 THEN 0
                 ELSE ten_seconds_counter + 1
            /\ IF ten_seconds_counter + 1 = 10 /\ current_time % 6 = 0
                 THEN Evaluate("periodic", current_time, 0)
                 ELSE /\ h_call' = NoCall
                      /\ UNCHANGED <<schedule_last_tfound, motor_state,
                                     last_action, motor_action_delay,
                                     h_fired>>
       ELSE /\ h_call' = NoCall
            /\ UNCHANGED <<one_second_event, h_pass, ten_seconds_counter,
                           schedule_last_tfound, motor_state, last_action,
                           motor_action_delay, h_fired>>
  /\ outbox' = IF h_call'.fire = action_up THEN send_dbgmsg("sch-act up")
               ELSE IF h_call'.fire = action_down
                 THEN send_dbgmsg("sch-act dn")
               ELSE <<>>
  /\ h_req' = NoMsg
  /\ UNCHANGED <<wakeup_main, key_s2_event, key_s3_event,
                 motor_action_event, shutter_state, MOTOR_on, MOTOR_down,
                 sensVars, sensor_ctrl, debug_flags, rx_buf, rx_held, h_rel>>
  /\ UNCHANGED h_ticks
  /\ LoopRest

\* msg = csma_get_message (); if (msg) ...
LoopGet ==
  /\ pc = "msg"
  /\ IF rx_buf # NoMsg
       THEN /\ pc' = "dispatch" /\ rx_held' = TRUE /\ h_rel' = 0
            /\ UNCHANGED h_pass
       ELSE /\ pc' = "wait" /\ h_pass' = <<>>
            /\ UNCHANGED <<rx_held, h_rel>>
  /\ outbox' = <<>> /\ h_req' = NoMsg /\ h_call' = NoCall
  /\ UNCHANGED <<wakeup_main, one_second_event, key_s2_event, key_s3_event,
                 motor_action_delay, motor_action_event, motor_state,
                 last_action, shutter_state, MOTOR_on, MOTOR_down, timeVars,
                 schedVars, h_fired, sensVars, sensor_ctrl, debug_flags,
                 ten_seconds_counter, rx_buf>>
  /\ UNCHANGED h_ticks
  /\ LoopRest

\* Mutant: a message of another protocol ends the pass at once (the release
\* is skipped).
LoopDispatch_norelease ==
  /\ pc = "dispatch"
  /\ pc' = IF rx_buf.proto = "other" THEN "wait" ELSE "msg_done"
  /\ process_message(rx_buf)
  /\ h_req' = rx_buf
  /\ h_pass' = Append(h_pass, "message")
  /\ UNCHANGED <<wakeup_main, one_second_event, key_s2_event, key_s3_event,
                 motor_action_event, shutter_state, MOTOR_on, MOTOR_down,
                 ten_seconds_counter, rx_buf, rx_held, h_rel>>
  /\ UNCHANGED h_ticks
  /\ LoopRest

\* switch (msg[0]) { ... }
LoopDispatch ==
  /\ pc = "dispatch"
  /\ pc' = "msg_done"
  /\ process_message(rx_buf)
  /\ h_req' = rx_buf
  /\ h_pass' = Append(h_pass, "message")
  /\ UNCHANGED <<wakeup_main, one_second_event, key_s2_event, key_s3_event,
                 motor_action_event, shutter_state, MOTOR_on, MOTOR_down,
                 ten_seconds_counter, rx_buf, rx_held, h_rel>>
  /\ UNCHANGED h_ticks
  /\ LoopRest

\* csma_message_done ();
LoopDone ==
  /\ pc = "msg_done"
  /\ pc' = "wait"
  /\ rx_buf' = NoMsg /\ rx_held' = FALSE
  /\ h_rel' = h_rel + 1
  /\ h_pass' = <<>>
  /\ h_call' = NoCall
  /\ UNCHANGED <<wakeup_main, one_second_event, key_s2_event, key_s3_event,
                 motor_action_delay, motor_action_event, motor_state,
                 last_action, shutter_state, MOTOR_on, MOTOR_down, timeVars,
                 schedVars, h_fired, sensVars, sensor_ctrl, debug_flags,
                 outbox, h_req, ten_seconds_counter>>
  /\ UNCHANGED h_ticks
  /\ LoopRest

LoopArrive == RxArrive(LoopRequests)
RecvArrive == RxArrive(RecvRequests)

\* After some seconds of idling: the counter of the seconds is anywhere in
\* its round (the last two places here), the clock on a full minute or 10 s
\* behind it.
InitLoop ==
  /\ InitMotor /\ InitSchedHist /\ InitClock /\ InitIdle
  /\ current_time \in {0, 1} /\ current_clock = 0
  /\ time_has_been_set = FALSE
  /\ ten_seconds_counter \in {8, 9}
  /\ booted = TRUE
  /\ schedule_last_tfound = 0
  /\ schedule = [i \in 1..SchedLen |-> IF i = 1 THEN 1 ELSE 0]

NextLoop ==
  \/ LoopTick \/ LoopArrive
  \/ LoopWake \/ LoopKeyS2 \/ LoopKeyS3 \/ LoopMotor \/ LoopSensor
  \/ LoopSecond
  \/ LoopGet \/ LoopDispatch \/ LoopDone

SpecLoop == InitLoop /\ [][NextLoop]_vars

\* The receive path alone: every kind of message, no tick.
NextRecv ==
  \/ RecvArrive
  \/ LoopWake \/ LoopKeyS2 \/ LoopKeyS3 \/ LoopMotor \/ LoopSensor
  \/ LoopSecond
  \/ LoopGet \/ LoopDispatch \/ LoopDone

SpecRecv == Init /\ [][NextRecv]_vars

---------------------------------------------------------------------------
\* The frame of the bus (README, "The protocol"):
\*   SYNC (0x7e) | PROTID | PAYLOAD (15 octets) | CRC (msb) | CRC (lsb)
\* All octets but SYNC are byte stuffed and masked as in PPP (RFC 1662): a
\* reserved octet is sent as the escape octet followed by the octet with
\* bit 5 inverted.  The CRC (x^16+x^12+x^5+1, initial value 0xffff) is
\* taken over PROTID and PAYLOAD before stuffing.

FRAME_SYNC  == 126
FRAME_ESC   == 125
PayloadLen  == 15
FrameLen    == PayloadLen + 3
CrcInit     == 65535

BitAt(v, k) == (v \div 2^k) % 2
Flip(v, k) == IF BitAt(v, k) = 1 THEN v - 2^k ELSE v + 2^k

\* One bit into the CRC register, most significant bit first.
crc_bit(crc, b) ==
  LET s == (crc * 2) % 65536 IN
  IF (BitAt(crc, 15) + b) % 2 = 1 THEN Flip(Flip(Flip(s, 0), 5), 12) ELSE s

RECURSIVE crc_octet(_, _, _)
crc_octet(crc, o, k) ==
  IF k = 0 THEN crc
  ELSE LET c == crc_bit(crc, BitAt(o, k - 1)) IN
       IF c >= 0 THEN crc_octet(c, o, k - 1) ELSE c

RECURSIVE crc_update(_, _)
crc_update(crc, seq) ==
  IF seq = <<>> THEN crc
  ELSE LET c == crc_octet(crc, Head(seq), 8) IN
       IF c >= 0 THEN crc_update(c, Tail(seq)) ELSE c

compute_crc(seq) == crc_update(CrcInit, seq)

\* Mutant: the reserved octet is escaped but not masked.
stuff_unmasked(o) ==
  IF o \in {FRAME_SYNC, FRAME_ESC} THEN <<FRAME_ESC, o>> ELSE <<o>>

\* Mutant: only the sync value is escaped.
stuff_synconly(o) ==
  IF o = FRAME_SYNC THEN <<FRAME_ESC, Flip(o, 5)>> ELSE <<o>>

\* Byte stuffing of one octet.
stuff(o) ==
  IF o \in {FRAME_SYNC, FRAME_ESC} THEN <<FRAME_ESC, Flip(o, 5)>> ELSE <<o>>

RECURSIVE stuff_all(_)
stuff_all(seq) ==
  IF seq = <<>> THEN <<>> ELSE stuff(Head(seq)) \o stuff_all(Tail(seq))

\* The octets of a frame as they go onto the wire.
encode_frame(id, pay) ==
  LET crc == compute_crc(<<id>> \o pay) IN
  <<FRAME_SYNC>> \o stuff_all(<<id>> \o pay \o <<crc \div 256, crc % 256>>)

NoFrame == [ok |-> FALSE, id |-> 0, pay |-> <<>>, raw |-> <<>>]
RxIdle  == [on |-> FALSE, esc |-> FALSE, buf |-> <<>>, out |-> NoFrame]

CrcOf(raw)   == raw[PayloadLen + 2] * 256 + raw[PayloadLen + 3]
BodyOf(raw)  == SubSeq(raw, 1, PayloadLen + 1)

\* Mutant: a complete frame is handed over whatever its CRC.
rx_complete_unchecked(raw, old) ==
  [ok |-> TRUE, id |-> raw[1], pay |-> SubSeq(raw, 2, PayloadLen + 1),
   raw |-> raw]

\* A complete frame of 18 de-stuffed octets after the sync: it is handed
\* over if the CRC over PROTID and PAYLOAD equals the CRC received, and
\* dropped otherwise (the message validated before stays).
rx_complete(raw, old) ==
  IF compute_crc(BodyOf(raw)) = CrcOf(raw)
    THEN [ok |-> TRUE, id |-> raw[1], pay |-> SubSeq(raw, 2, PayloadLen + 1),
          raw |-> raw]
    ELSE [old EXCEPT !.raw = raw]

\* The receiver, octet by octet: a sync starts a frame anywhere, the escape
\* octet unmasks the octet after it.
rx_octet(st, o) ==
  IF o = FRAME_SYNC
    THEN [st EXCEPT !.on = TRUE, !.esc = FALSE, !.buf = <<>>]
  ELSE IF ~st.on THEN st
  ELSE IF o = FRAME_ESC /\ ~st.esc THEN [st EXCEPT !.esc = TRUE]
  ELSE LET b == Append(st.buf, IF st.esc THEN Flip(o, 5) ELSE o) IN
       IF Len(b) < FrameLen
         THEN [st EXCEPT !.esc = FALSE, !.buf = b]
         ELSE [on |-> FALSE, esc |-> FALSE, buf |-> <<>>,
               out |-> rx_complete(b, st.out)]

RECURSIVE rx_stream(_, _)
rx_stream(st, seq) ==
  IF seq = <<>> THEN st
  ELSE LET s == rx_octet(st, Head(seq)) IN
       IF s.on \in BOOLEAN THEN rx_stream(s, Tail(seq)) ELSE s

decode_frame(seq) == rx_stream(RxIdle, seq).out

\* The octet values and the messages of SpecFrame: the reserved values,
\* their masked forms, and first octets that make an octet of the CRC a
\* reserved value.
FrameIds   == {0, FRAME_SYNC}
FirstVals  == {0, FRAME_SYNC, FRAME_ESC, 94, 93, 41, 43, 3}
LastVals   == {0, FRAME_SYNC, FRAME_ESC, 94}
FillVals   == {0, FRAME_SYNC}
Payload(a, b, c) ==
  [i \in 1..PayloadLen |-> IF i = 1 THEN a ELSE IF i = PayloadLen THEN b
                                                ELSE c]

\* What the frame specification leaves alone.
FrameRest == UNCHANGED <<motorVars, motorHist, timeVars, schedVars,
                         schedHist, clockVars, sensVars, msgVars, loopVars,
                         keyVars, h_weeks, h_trig>>

\* csma_send_message: the frame goes onto the wire.
FrameSend ==
  /\ fr_pc = "idle"
  /\ wire' = encode_frame(tx_id, tx_pay)
  /\ h_txs' = h_txs + 1
  /\ fr_pc' = "sent"
  /\ UNCHANGED <<tx_id, tx_pay, rx_frame>>
  /\ FrameRest

\* A collision or a glitch: one octet on the wire has a bit inverted or
\* reads as the sync value, or the frame is cut short.
FrameCollide ==
  /\ fr_pc = "sent"
  /\ \/ \E i \in 1..Len(wire), k \in {0, 5, 7} :
          wire' = [wire EXCEPT ![i] = Flip(@, k)]
     \/ \E i \in 2..Len(wire) : wire' = [wire EXCEPT ![i] = FRAME_SYNC]
     \/ \E n \in 1..(Len(wire) - 1) : wire' = SubSeq(wire, 1, n)
  /\ fr_pc' = "hit"
  /\ UNCHANGED <<tx_id, tx_pay, rx_frame, h_txs>>
  /\ FrameRest

\* The receiver has taken the octets from the wire.
FrameReceive ==
  /\ fr_pc \in {"sent", "hit"}
  /\ rx_frame' = decode_frame(wire)
  /\ fr_pc' = IF fr_pc = "sent" THEN "recv" ELSE "recv_hit"
  /\ UNCHANGED <<tx_id, tx_pay, wire, h_txs>>
  /\ FrameRest

InitFrame ==
  /\ InitMotor /\ InitTime /\ InitSchedHist /\ InitClock /\ InitQuiet
  /\ ten_seconds_counter = 0
  /\ booted = TRUE
  /\ schedule_last_tfound = 0
  /\ schedule = [i \in 1..SchedLen |-> IF i = 1 THEN 1 ELSE 0]
  /\ tx_id \in FrameIds
  /\ \E a \in FirstVals, b \in LastVals, c \in FillVals :
       tx_pay = Payload(a, b, c)

NextFrame == FrameSend \/ FrameCollide \/ FrameReceive

SpecFrame == InitFrame /\ [][NextFrame]_vars

---------------------------------------------------------------------------
\* C1 -- motor interlock: in no step does the direction relay output
\* (MOTOR_down) change value while the motor power output (MOTOR_on) is on
\* before or after the step, whatever triggers, ticks and motor steps
\* interleave.
C1_Interlock ==
  [][MOTOR_down' # MOTOR_down => (~MOTOR_on /\ ~MOTOR_on')]_vars

\* C1 witness: a down run is under way (the relay has been switched to down
\* and the motor powered after it).
C1_Witness == MOTOR_on /\ MOTOR_down /\ h_cut = FALSE /\ h_ran
              /\ motor_state = motor_state_down_ready

\* C2 -- settle delays: every direction write came at least SettleTicks ticks
\* after the preceding motor-off step, and every motor-on step at least
\* SettleTicks ticks after the preceding direction write, for every
\* interleaving of the tick ISR with the main loop.
C2_SettleDelays == h_gap_dir >= SettleTicks /\ h_gap_on >= SettleTicks

\* C3 (as stated) -- no cancellation: a powered run ends only through its
\* *_ready step, i.e. while the motor is on the state machine waits in
\* *_ready, and once it is off again the *_ready step has executed.
C3_NoCancel ==
  /\ MOTOR_on => motor_state \in ReadyStates
  /\ (h_ran /\ ~MOTOR_on) => h_ready

\* C3 (amended) -- a trigger during a run overwrites motor_state with a pre_*
\* state at once and the motor stays powered only until the next motor step:
\* a run ends through its *_ready step exactly when no trigger arrived
\* during it, and otherwise is cut short without the *_ready step.
C3_CutOrReady ==
  /\ (MOTOR_on /\ ~h_cut) => (motor_state \in ReadyStates /\ ~h_ready)
  /\ (MOTOR_on /\ h_cut) => (motor_state \in PreStates /\ ~h_ready)
  /\ (h_ran /\ ~MOTOR_on) => (h_ready # h_cut)

\* C3 witness: a run has been cut short by a trigger and the motor is off
\* without the *_ready step having run.
C3_Witness == h_ran /\ ~MOTOR_on /\ h_cut /\ ~h_ready

---------------------------------------------------------------------------
\* Vocabulary of the schedule claims, stated on the table itself.
\* The window of the call recorded in h_call, and the entries inside it.
InWindow(e) == e # 0 /\ e > h_call.tlow /\ e <= h_call.thigh
HasAction(e) == EntryAction(e) \in {SCHEDULE_ACTION_UP, SCHEDULE_ACTION_DOWN}
SetMax(S) == CHOOSE x \in S : \A y \in S : y <= x
\* Indices before the first zero entry.
LiveIdx == {i \in 1..SchedLen : \A j \in 1..i : schedule[j] # 0}
\* The entry at the highest index among the live entries inside the window.
Selected ==
  IF {i \in LiveIdx : InWindow(schedule[i])} = {} THEN 0
  ELSE schedule[SetMax({i \in LiveIdx : InWindow(schedule[i])})]
Evaluated == h_call.called /\ ~h_call.gated

\* C4 -- no re-firing, for the periodic invocations (forced_tlow = 0): the
\* once-a-minute call never fires an entry that has fired earlier in the
\* same week, the clock not having stepped back and the table not having
\* changed since.
C4_NoRefire == h_call.kind = "periodic" => ~h_call.again

\* C5 -- catch-up firing is never lost: handling a TIME message with
\* t_new > t_old fires an action when the table holds a pull-up or
\* pull-down entry with timestamp in (t_old, t_new].  Stated for the tables
\* on which the claim is at its weakest: sorted, without zero and without
\* no-op entries.
C5_CatchUp ==
  (/\ h_call.kind = "time" /\ h_call.time > h_call.told
   /\ \A i \in 1..SchedLen : schedule[i] # 0 /\ HasAction(schedule[i])
   /\ \A i \in 1..SchedLen, j \in 1..SchedLen :
         i < j => schedule[i] <= schedule[j]
   /\ \E i \in 1..SchedLen : /\ EntryTime(schedule[i]) > h_call.told
                             /\ EntryTime(schedule[i]) <= h_call.time)
  => h_call.fire # "nop"

\* C6 -- schedule gating: a call of process_schedule while
\* time_has_been_set is false changes neither schedule_last_tfound nor the
\* table nor anything of the motor; time_has_been_set is raised only by a
\* TIME message (set_current_fulltime) and never cleared.
C6_Gating ==
  /\ [][(h_call'.called /\ ~time_has_been_set') =>
          UNCHANGED <<schedule_last_tfound, schedule, motor_state,
                      last_action, motor_action_delay, motor_action_event,
                      MOTOR_on, MOTOR_down, shutter_state>>]_vars
  /\ [][time_has_been_set => time_has_been_set']_vars
  /\ [][(~time_has_been_set /\ time_has_been_set') =>
          h_call'.kind = "time"]_vars

\* C6 witness: the periodic call ran at 00:00:00 before any TIME message,
\* with the 00:00 pull-up entry in the table.
C6_Witness ==
  /\ h_call.kind = "periodic" /\ h_call.called /\ h_call.gated
  /\ ~time_has_been_set /\ current_time = 0 /\ schedule[1] = 1

\* C7 (as stated) -- the entry found is the highest one among all entries
\* of the table inside the window, whatever the order of the table.
C7_Highest ==
  Evaluated =>
    h_call.tfound =
      IF \E i \in 1..SchedLen : InWindow(schedule[i])
        THEN SetMax({schedule[i] : i \in {k \in 1..SchedLen :
                                             InWindow(schedule[k])}})
        ELSE 0

\* C7 (amended) -- the walk ends at the first zero entry and finds the
\* entry latest in table order among those inside the window; that is the
\* highest one when the entries before the first zero are in ascending
\* order.
C7_LastInOrder ==
  Evaluated =>
    /\ h_call.tfound = Selected
    /\ (\A i \in LiveIdx, j \in LiveIdx : i < j => schedule[i] <= schedule[j])
         => \A i \in LiveIdx : InWindow(schedule[i])
                                 => schedule[i] <= h_call.tfound

\* C7 witness: two entries inside the window, the later in table order
\* being the lower one, and that one found.
C7_Witness ==
  /\ Evaluated /\ schedule[1] = 29 /\ schedule[2] = 1
  /\ InWindow(29) /\ InWindow(1) /\ h_call.tfound = 1

\* C8 (as stated) -- whenever an entry with a pull-up or pull-down code lies
\* inside the window, the invocation fires an action.
C8_FiresIfAny ==
  (Evaluated /\ \E i \in 1..SchedLen :
                   InWindow(schedule[i]) /\ HasAction(schedule[i]))
  => h_call.fire # "nop"

\* C8 (amended) -- an invocation triggers at most one action: pull-up when
\* the selected entry (latest in table order before the first zero, inside
\* the window) has the pull-up code, pull-down when it has the pull-down
\* code, and nothing otherwise, also when another entry inside the window
\* has such a code.
C8_FiresSelected ==
  Evaluated =>
    /\ h_call.fire = action_up <=>
         (Selected # 0 /\ EntryAction(Selected) = SCHEDULE_ACTION_UP)
    /\ h_call.fire = action_down <=>
         (Selected # 0 /\ EntryAction(Selected) = SCHEDULE_ACTION_DOWN)
    /\ h_call.fire = action_up =>
         (motor_state = motor_state_pre_up /\ last_action = action_up
            /\ motor_action_delay = 1)
    /\ h_call.fire = action_down =>
         (motor_state = motor_state_pre_down /\ last_action = action_down
            /\ motor_action_delay = 1)

\* C8 witness: a pull-down entry and a later no-op entry are both inside the
\* window and nothing is fired.
C8_Witness ==
  /\ Evaluated /\ schedule[1] = 29 /\ schedule[2] = 18
  /\ InWindow(29) /\ InWindow(18)
  /\ h_call.fire = "nop" /\ schedule_last_tfound = 18

\* C9 -- clock range: in every state outside the tick ISR
\* 0 <= current_time < 60480 and 0 <= current_clock < 1000, whatever
\* timestamp and decisecond value an accepted TIME message carries.
C9_ClockRange ==
  /\ current_time \in 0..(WeekLen - 1)
  /\ current_clock \in 0..999

\* C10 -- no torn clock read: the value a completed get_current_time
\* returns is one that current_time held during the read.
C10_NoTornRead == rd_val # -1 => rd_val \in rd_held

\* C11 -- set_current_fulltime writes current_time and current_clock in
\* one step with respect to the tick ISR and sets time_has_been_set; for
\* deci in 0..99 a get_current_fulltime before the next tick returns
\* exactly (tim, deci).
C11_SetReadBack ==
  /\ [][(rd_pc = "time" /\ rd_pc' = "idle") =>
          /\ time_has_been_set'
          /\ current_time' = h_set'.tim
          /\ current_clock' = h_set'.deci * 10]_vars
  /\ []((fr_val # NoAnswer /\ h_set # NoSet /\ h_set.deci \in 0..99) =>
          (fr_val.time = h_set.tim /\ fr_val.deci = h_set.deci))

\* C11 witness: the time was set with 99 deciseconds and queried before the
\* next tick.
C11_Witness ==
  /\ h_set # NoSet /\ h_set.deci = 99 /\ fr_val # NoAnswer
  /\ fr_val.deci = 99 /\ time_has_been_set

---------------------------------------------------------------------------
\* Vocabulary of the message claims.  A step of the main loop has handled
\* the message h_req (NoMsg: none) and sent the messages of outbox.
Handled == h_req # NoMsg
Broadcast == <<255, 255>>
\* The destination is neither the node nor a broadcast address.
NotForNode(msg) == msg.dst # config_nodeid /\ msg.dst[2] # 255
Marked(m) == P_H61_RESPMASK \in m.marks /\ P_BUSCTL_RESPMASK \in m.marks

\* C12 (as stated) -- every answer the node sends has the source address of
\* the request that caused it as destination, the node id as source and the
\* response marker set, the sensor answer included; a message whose
\* destination is neither the node nor a broadcast address is not answered.
C12_ReplyToSource ==
  /\ \A i \in Answers(outbox) :
       /\ outbox[i].src = config_nodeid
       /\ Marked(outbox[i])
       /\ outbox[i].dst = IF Handled THEN h_req.src ELSE h_sens.first
  /\ (Handled /\ NotForNode(h_req)) => Answers(outbox) = {}

\* C12 (amended) -- every answer has the node id as source and the response
\* marker set; the answer of a message handler goes to the source of the
\* message handled; the sensor answer goes to the requester that started
\* the conversion, or to the broadcast address 0xffff when a request from
\* another address arrived while the conversion was under way; a message
\* whose destination is neither the node nor a broadcast address is not
\* answered.
C12_ReplyAddressing ==
  /\ \A i \in Answers(outbox) :
       /\ outbox[i].src = config_nodeid
       /\ Marked(outbox[i])
       /\ outbox[i].dst = IF Handled THEN h_req.src
                          ELSE IF h_sens.others THEN Broadcast
                          ELSE h_sens.first
  /\ (Handled /\ NotForNode(h_req)) => Answers(outbox) = {}

\* C12 witness: the sensor answer goes out to the broadcast address after a
\* second requester has asked.
C12_Witness ==
  /\ ~Handled /\ Answers(outbox) # {} /\ h_sens.others
  /\ IsSensorAnswer(outbox[Len(outbox)])
  /\ outbox[Len(outbox)].dst = Broadcast

\* The codes the dispatchers and handlers know.
KnownProtocols == {PROTOCOL_EBUS_BUSCTL, PROTOCOL_EBUS_H61}
KnownBusctl == {P_BUSCTL_TIME, P_BUSCTL_QRY_TIME, P_BUSCTL_QRY_VERSION,
                P_BUSCTL_SET_DEBUG, P_BUSCTL_QRY_DEBUG}
KnownShutter == {P_H61_SHUTTER_QUERY, P_H61_SHUTTER_DRIVE,
                 P_H61_SHUTTER_QRY_TIMINGS, P_H61_SHUTTER_UPD_TIMINGS,
                 P_H61_SHUTTER_QRY_SCHEDULE, P_H61_SHUTTER_UPD_SCHEDULE}
\* An unknown protocol, command or sub-command, or a response.
Unknown(msg) ==
  \/ msg.proto \notin KnownProtocols
  \/ msg.proto = PROTOCOL_EBUS_BUSCTL /\ msg.cmd \notin KnownBusctl
  \/ msg.proto = PROTOCOL_EBUS_H61
       /\ msg.cmd \notin {P_H61_SHUTTER, P_H61_SENSOR}
  \/ msg.proto = PROTOCOL_EBUS_H61 /\ msg.cmd = P_H61_SHUTTER
       /\ msg.sub \notin KnownShutter
  \/ msg.proto = PROTOCOL_EBUS_H61 /\ msg.cmd = P_H61_SENSOR
       /\ msg.sub # P_H61_SENSOR_TEMPERATURE
  \/ msg.marks # {}

\* C13 -- a message with an unknown protocol id, an unknown command or
\* sub-command code, or with the response marker set is ignored: handling
\* it sends nothing and leaves motor state, shutter status, clock,
\* time_has_been_set, schedule table, sensor control block and node config
\* unchanged.
C13_UnknownIgnored ==
  [][(h_req' # NoMsg /\ Unknown(h_req')) =>
       /\ outbox' = <<>>
       /\ UNCHANGED <<motor_state, last_action, motor_action_delay,
                      motor_action_event, MOTOR_on, MOTOR_down,
                      shutter_state, current_time, current_clock,
                      time_has_been_set, schedule, schedule_last_tfound,
                      sensor_ctrl, sensor_action_delay,
                      sensor_action_event, debug_flags>>]_vars

\* C13 witness: a drive command with the response marker set has been
\* handled while a conversion is active, a trigger is pending and the debug
\* flags are set.
C13_Witness ==
  /\ Handled /\ h_req.marks # {} /\ h_req.sub = P_H61_SHUTTER_DRIVE
  /\ outbox = <<>> /\ sensor_ctrl.active = 5 /\ debug_flags = 1
  /\ motor_state = motor_state_pre_down /\ time_has_been_set

\* Drive commands directed to the node, and what the claim calls invalid.
IsDrive(msg) ==
  /\ msg.proto = PROTOCOL_EBUS_H61 /\ msg.dst = config_nodeid
  /\ msg.cmd = P_H61_SHUTTER /\ msg.marks = {}
  /\ msg.sub = P_H61_SHUTTER_DRIVE
DriveInvalid(msg) ==
  \/ D(msg, 7) > 1
  \/ \E k \in 9..15 : D(msg, k) # 0
  \/ D(msg, 8) \in {16 * a + b : a \in {1, 3, 5, 7, 9, 11, 13, 15},
                                 b \in 0..15}
  \/ D(msg, 8) \in {32 * a + b : a \in {1, 3, 5, 7}, b \in 0..31}
  \/ D(msg, 8) < 128

\* C14 -- a drive command with shutter index > 1, a non-zero reserved byte
\* (msg[9..15]), bit 0x10 or bit 0x20 of msg[8] set, or direction bits that
\* are neither up (0xC0) nor down (0x80) is answered with error code 1 and
\* triggers nothing: motor state, pending delay and last action are
\* unchanged.  A valid command is answered with error code 0 (and
\* triggers: the motor state becomes pre_up or pre_down).
C14_DriveValidation ==
  [][(h_req' # NoMsg /\ IsDrive(h_req')) =>
       /\ Cardinality(Answers(outbox')) = 1
       /\ LET a == outbox'[Len(outbox')] IN
            /\ a.sub = P_H61_SHUTTER_DRIVE /\ a.dst = h_req'.src
            /\ a.d[1] = IF DriveInvalid(h_req') THEN 1 ELSE 0
            /\ a.d[2] = shutter_state
       /\ DriveInvalid(h_req') =>
            UNCHANGED <<motor_state, motor_action_delay, last_action>>
       /\ ~DriveInvalid(h_req') =>
            /\ motor_state' \in {motor_state_pre_up, motor_state_pre_down}
            /\ motor_action_delay' = 1]_vars

\* C14 witness: a drive command with the reserved bit 0x10 has been answered
\* with error code 1 while a pull-up trigger was pending.
C14_Witness ==
  /\ Handled /\ IsDrive(h_req) /\ D(h_req, 8) = 208
  /\ outbox # <<>> /\ outbox[Len(outbox)].d[1] = 1
  /\ motor_state = motor_state_pre_up /\ motor_action_delay = 1

\* Schedule updates directed to the node; the malformed ones of the claim.
IsUpdSchedule(msg) ==
  /\ msg.proto = PROTOCOL_EBUS_H61 /\ msg.dst = config_nodeid
  /\ msg.cmd = P_H61_SHUTTER /\ msg.marks = {}
  /\ msg.sub = P_H61_SHUTTER_UPD_SCHEDULE
IsResetPattern(msg) ==
  D(msg, 7) = 240 /\ D(msg, 9) = 16 /\ D(msg, 10) = 240
    /\ D(msg, 11) = 240 /\ D(msg, 12) = 240 /\ D(msg, 13) = 240
UpdMalformed(msg) ==
  /\ \/ D(msg, 10) >= DimSchedule
     \/ D(msg, 9) # 1
     \/ D(msg, 8) # 0 \/ D(msg, 14) # 0 \/ D(msg, 15) # 0
  /\ ~IsResetPattern(msg)

\* C15 -- a malformed schedule update (index out of range, entry count
\* other than 1, non-zero reserved bytes; not the reset pattern) is answered
\* with an error value and leaves the schedule table unchanged.
C15_MalformedAnswered ==
  [][(h_req' # NoMsg /\ IsUpdSchedule(h_req') /\ UpdMalformed(h_req')) =>
       /\ Answers(outbox') # {}
       /\ schedule' = schedule]_vars

---------------------------------------------------------------------------
\* The key steps of the main loop that call trigger_action.
ToggleUp   == pc = "key_s3" /\ pc' = "key_s3_clr"
ToggleDown == pc = "key_s2" /\ pc' = "key_s2_clr"

\* C16 (amended) -- trigger(toggle-up) resolves to none (off sequence) when
\* the action recorded by the previous trigger_action call is up, in any
\* motor state, state off after a completed up run included, and to up
\* otherwise; symmetrically for toggle-down.  The action recorded is
\* updated on every trigger, a resolved none included.
C16_ToggleRule ==
  /\ [][ToggleUp =>
          IF last_action = action_up
            THEN /\ last_action' = action_none
                 /\ motor_state' = motor_state_pre_off
            ELSE /\ last_action' = action_up
                 /\ motor_state' = motor_state_pre_up]_vars
  /\ [][ToggleDown =>
          IF last_action = action_down
            THEN /\ last_action' = action_none
                 /\ motor_state' = motor_state_pre_off
            ELSE /\ last_action' = action_down
                 /\ motor_state' = motor_state_pre_down]_vars

\* C16 (as stated) -- the same rule, and toggle-up resolves to up (toggle-
\* down to down) whenever the motor state machine is in state off.
C16_ToggleFromOff ==
  /\ C16_ToggleRule
  /\ [][(ToggleUp /\ motor_state = motor_state_off) =>
          (last_action' = action_up
             /\ motor_state' = motor_state_pre_up)]_vars
  /\ [][(ToggleDown /\ motor_state = motor_state_off) =>
          (last_action' = action_down
             /\ motor_state' = motor_state_pre_down)]_vars

\* C16 witness: after a completed up run (the up_ready step has stored the
\* end position and the motor is off) the up key has resolved to none.
C16_Witness ==
  /\ pc = "key_s3_clr" /\ last_action = action_none
  /\ motor_state = motor_state_pre_off
  /\ shutter_state = 32 /\ h_ready /\ ~h_cut /\ ~MOTOR_on

\* Vocabulary of C17: the step handles the TIME message 07:30:05 at the
\* local time Monday 07:29:50 with no time set and the entry Monday 07:30
\* pull-up in the table; a status query has been handled.
SyncStep ==
  /\ h_req'.proto = PROTOCOL_EBUS_BUSCTL /\ h_req'.cmd = P_BUSCTL_TIME
  /\ current_time = (7 * 60 + 29) * 6 + 5 /\ ~time_has_been_set
  /\ Has(schedule, (7 * 60 + 30) * 6 + 1)

StatusQueried ==
  /\ h_req.proto = PROTOCOL_EBUS_H61 /\ h_req.cmd = P_H61_SHUTTER
  /\ h_req.sub = P_H61_SHUTTER_QUERY

SyncEffect ==
  [][SyncStep =>
       /\ current_time' = (7 * 60 + 30) * 6 /\ current_clock' = 500
       /\ time_has_been_set'
       /\ h_call'.called /\ ~h_call'.gated
       /\ h_call'.told = (7 * 60 + 29) * 6 + 5
       /\ h_call'.fire = action_up
       /\ last_action' = action_up
       /\ motor_state' = motor_state_pre_up
       /\ motor_action_delay' = 1
       /\ h_sync' = "fired"]_vars

\* C17 (amended) -- time synchronisation: with the entry Monday 07:30 =
\* pull-up, the local clock at 07:29:50 and no time set, handling the TIME
\* message 07:30:05 sets the clock, sets time_has_been_set, runs
\* process_schedule with the old local time as forced low bound and fires
\* pull-up.  A status query handled after the motor step that switches the
\* motor on (two settle delays after the message) and before the end of the
\* run is answered with 'running, direction up'; a query handled before
\* that step is answered with the status stored before the message.
C17_TimeSync ==
  /\ SyncEffect
  /\ [](StatusQueried /\ h_sync = "running" =>
          Len(outbox) = 1 /\ outbox[1].d[2] = 192)
  /\ [](StatusQueried /\ h_sync = "fired" =>
          Len(outbox) = 1 /\ outbox[1].d[2] = 0)

\* C17 (as stated) -- ... and any status query handled after that TIME
\* message, up to the end of the run, is answered with 'running, direction
\* up'.
C17_QueryAfterSync ==
  /\ SyncEffect
  /\ [](StatusQueried /\ h_sync \in {"fired", "running"} =>
          Len(outbox) = 1 /\ outbox[1].d[2] = 192)

\* C17 witness: the clock has been set from 07:29:50 to 07:30:05, the
\* entry has fired, the motor is on and a query is answered with 192.
C17_Witness ==
  /\ StatusQueried /\ h_sync = "running"
  /\ time_has_been_set /\ current_time = (7 * 60 + 30) * 6
  /\ MOTOR_on /\ ~MOTOR_down /\ motor_state = motor_state_up_ready
  /\ Len(outbox) = 1 /\ outbox[1].d[2] = 192

\* Vocabulary of C18 and C19: the last step has sent the answer to the
\* temperature request; the last step has accepted a request.
SensorAnswered ==
  /\ Len(outbox) = 1 /\ IsSensorAnswer(outbox[1])
  /\ outbox[1].marks = {P_H61_RESPMASK}
  /\ outbox[1].sub = P_H61_SENSOR_TEMPERATURE

SensorSentinel == outbox[1].d[2] = 127 /\ outbox[1].d[3] = 255

SensorAccept ==
  /\ IsTemperatureRequest(h_req') /\ sensor_ctrl.active = 0

\* C18 -- the sensor never stalls: with the tick interrupt coming and the
\* main loop running, every accepted temperature request is eventually
\* answered; no request gets more than one answer or more than 5 scratchpad
\* reads; the answer carries the temperature of a read with a valid CRC, or
\* 0x7fff when the fifth read has failed too; with the answer
\* sensor_ctrl.active is 0, and a request handled then starts a conversion
\* with 5 tries.
C18_SensorAnswers ==
  /\ (sensor_ctrl.active # 0) ~> SensorAnswered
  /\ [](h_sens.reads <= 5 /\ h_sens.answers <= 1)
  /\ [](Answers(outbox) # {} =>
          /\ SensorAnswered /\ h_sens.answers = 1
          /\ sensor_ctrl.active = 0
          /\ h_sens.reads \in 1..5
          /\ \/ ~SensorSentinel
                  /\ \E pad \in Scratchpads :
                       /\ pad.crc_ok
                       /\ outbox[1].d[2] * 256 + outbox[1].d[3]
                            = sensor_temperature(pad)
             \/ SensorSentinel /\ h_sens.reads = 5)
  /\ [][SensorAccept =>
          /\ sensor_ctrl'.active = 5
          /\ sensor_action_delay' = ConvertTicks
          /\ ~sensor_action_event'
          /\ h_sens' = [NoSens EXCEPT !.first = h_req'.src]]_vars

\* C18 witness: five reads have failed and the sentinel has gone out.
C18_Witness ==
  /\ SensorAnswered /\ SensorSentinel
  /\ h_sens.reads = 5 /\ h_sens.answers = 1 /\ sensor_ctrl.active = 0

\* Vocabulary of C19: the step handles a temperature request while one is
\* active; the address the answer goes to.
SensorFurther == IsTemperatureRequest(h_req') /\ sensor_ctrl.active # 0

SensorTarget == <<sensor_ctrl.addr_hi, sensor_ctrl.addr_lo>>

\* C19 -- single conversion: a temperature request handled while one is
\* active leaves the delay, the event flag and the try counter as they
\* are and sends nothing; the answer address becomes 0xffff if the request
\* comes from another address than the recorded one and is unchanged
\* otherwise; once 0xffff it stays so while the request is active, and the
\* answer goes to 0xffff if a request from another address than the first
\* came in between and to the first requester otherwise.
C19_SingleConversion ==
  /\ [][SensorFurther =>
          /\ sensor_ctrl'.active = sensor_ctrl.active
          /\ UNCHANGED sensVars
          /\ outbox' = <<>>
          /\ SensorTarget' = IF h_req'.src # SensorTarget
                                THEN <<255, 255>> ELSE SensorTarget]_vars
  /\ [][(sensor_ctrl.active # 0 /\ SensorTarget = <<255, 255>>) =>
          SensorTarget' = <<255, 255>>]_vars
  /\ [](Answers(outbox) # {} =>
          outbox[1].dst = IF h_sens.others THEN <<255, 255>>
                          ELSE h_sens.first)
  /\ [](sensor_ctrl.active # 0 =>
          SensorTarget = IF h_sens.others THEN <<255, 255>>
                         ELSE h_sens.first)

\* C19 witness: the first requester asks again after another requester has
\* switched the answer to broadcast and a read has failed; the retry delay
\* is still running.
C19_Witness ==
  /\ IsTemperatureRequest(h_req) /\ h_req.src = h_sens.first
  /\ h_sens.others /\ SensorTarget = <<255, 255>>
  /\ sensor_ctrl.active \in 1..4 /\ sensor_action_delay > 0
  /\ h_sens.reads > 0 /\ h_sens.answers = 0

\* Vocabulary of C20: the default table in closed form (entry k of the
\* array is element k + 1 here), and the step that handles the reset
\* pattern.
DefaultEntry(k) ==
  LET d == k \div 2
  IN  IF k >= 14 THEN 0
      ELSE IF k % 2 = 0
        THEN (d * 1440 + (IF d = 6 THEN 8 * 60 + 30 ELSE 7 * 60 + 30)) * 6
               + SCHEDULE_ACTION_UP
        ELSE (d * 1440 + 18 * 60 + 15) * 6 + SCHEDULE_ACTION_DOWN

DefaultTable == [k \in 1..DimSchedule |-> DefaultEntry(k - 1)]

ResetStep ==
  h_req' # NoMsg /\ IsUpdSchedule(h_req') /\ IsResetPattern(h_req')

\* C20 -- factory reset: a schedule update carrying the pattern (msg[7] =
\* 0xf0, msg[9] = 16, msg[10..13] = 0xf0) overwrites the whole table,
\* whatever it held, with the 14 default entries in increasing time order
\* (per day pull-up at 07:30, 08:30 on the seventh day, and pull-down at
\* 18:15, as weekly minute * 6 + action code) and zeros in the rest; the
\* boot writes the same table if entry 0 is zero and leaves the table
\* alone otherwise.
C20_FactoryReset ==
  /\ [][ResetStep => schedule' = DefaultTable]_vars
  /\ [][(~booted /\ booted') =>
          schedule' = IF schedule[1] = 0 THEN DefaultTable ELSE schedule]_vars
  /\ \A k \in 1..13 : DefaultTable[k] < DefaultTable[k + 1]
  /\ \A k \in 1..14 : DefaultTable[k] < WeekLen

\* C20 witness: the reset pattern with other bytes set as well has been
\* handled and the table ends with the Sunday entries and zeros.
C20_Witness ==
  /\ IsUpdSchedule(h_req) /\ IsResetPattern(h_req) /\ D(h_req, 8) # 0
  /\ schedule[1] = 2701 /\ schedule[13] = 54901 /\ schedule[14] = 58415
  /\ schedule[DimSchedule] = 0 /\ outbox = <<>>

---------------------------------------------------------------------------
\* The handlers of one pass of the main loop in the order of the source.
PassOrder == <<"key_s2", "key_s3", "motor", "sensor", "second", "message">>
PassRank(x) == CHOOSE i \in 1..Len(PassOrder) : PassOrder[i] = x
Ordered(seq) ==
  \A i \in 1..Len(seq), j \in 1..Len(seq) :
     i < j => PassRank(seq[i]) < PassRank(seq[j])
KeyHandled == Has(h_pass, "key_s2") \/ Has(h_pass, "key_s3")

\* The second step evaluates the schedule exactly on the tenth second with
\* the clock on a full minute, and no other step of the pass does.
TenthSecond ==
  /\ (pc = "second" /\ pc' = "msg") =>
       (h_call'.called <=>
          (one_second_event /\ ten_seconds_counter = 9
             /\ current_time % 6 = 0))
  /\ (pc' = pc /\ h_call'.kind = "periodic") => h_call' = h_call
  /\ (pc' # pc /\ pc # "second") => h_call'.kind # "periodic"

\* A motor step that follows a key trigger of the same pass runs the state
\* the trigger chose.
KeyThenMotor ==
  (pc = "motor" /\ pc' = "sensor" /\ motor_action_event /\ KeyHandled) =>
     /\ motor_state = trigger_state(last_action)
     /\ motor_action.ran[1] = trigger_state(last_action)
     /\ motor_state' = motor_action.state

\* C21 -- fixed drain order: in every pass of the main loop the handlers
\* that ran are in the order S2 key, S3 key, motor step, sensor step,
\* one-second housekeeping, message (each at most once, so at most one
\* message a pass); the schedule is evaluated in the one-second step exactly
\* on the tenth second when current_time is on a full minute; and a motor
\* event handled in a pass after a key trigger runs the state the key
\* trigger chose.
C21_DrainOrder == [][Ordered(h_pass') /\ TenthSecond /\ KeyThenMotor]_vars

\* C21 witness: a pass in which the S2 key, the motor event, the sensor
\* event, the second and a message were all handled, the counter of the
\* seconds having rolled over.
C21_Witness ==
  /\ h_pass = <<"key_s2", "motor", "sensor", "second", "message">>
  /\ ten_seconds_counter = 0

---------------------------------------------------------------------------
\* The message is held exactly between the fetch and the release.
HeldInHandler == rx_held <=> pc \in {"dispatch", "msg_done"}

\* A fetch: the main loop takes the message; a release: the receiver is
\* re-armed.
Fetch   == ~rx_held /\ rx_held'
Release == h_rel' # h_rel /\ h_rel' > 0

\* C22 -- scoped receive: the main loop fetches a message only while it
\* holds none; it releases a message only after the handler has returned
\* for that very message; a pass that fetched a message ends with the
\* message released exactly once and the buffer free; this on every path of
\* the dispatcher (bus control, device protocol, unknown protocol, another
\* node's address, malformed).
C22_ScopedReceive ==
  [][/\ HeldInHandler'
     /\ Fetch => (pc = "msg" /\ rx_buf # NoMsg /\ h_rel' = 0)
     /\ Release => (pc = "msg_done" /\ rx_held /\ h_req = rx_buf
                      /\ h_rel' = 1 /\ ~rx_held' /\ rx_buf' = NoMsg)
     /\ (pc' = "wait" /\ pc # "wait" /\ Has(h_pass, "message")) =>
          (Release /\ h_rel' = 1)
     /\ (rx_held /\ rx_held') => UNCHANGED rx_buf]_vars

\* C22 witness: a pass has ended after the malformed schedule update was
\* fetched, handled and released once.
C22_Witness ==
  /\ pc = "wait" /\ h_rel = 1 /\ ~rx_held /\ rx_buf = NoMsg
  /\ h_req.cmd = P_H61_SHUTTER /\ h_req.sub = P_H61_SHUTTER_UPD_SCHEDULE

---------------------------------------------------------------------------
\* The CRC of the message that was sent.
TxCrc == compute_crc(<<tx_id>> \o tx_pay)

\* C23 -- framer round trip: for every protocol id and payload of the
\* value sets (the sync value and the escape value among them) the decoder
\* makes of the encoded frame the same protocol id and the same 15 octets,
\* and the CRC it received (high octet first) is the CRC over the unstuffed
\* id and payload, with polynomial x^16+x^12+x^5+1 and initial value 0xffff
\* (check value 0x29b1 for the digits "123456789").
C23_RoundTrip ==
  fr_pc = "recv" =>
    /\ rx_frame.ok
    /\ rx_frame.id = tx_id /\ rx_frame.pay = tx_pay
    /\ Len(rx_frame.pay) = PayloadLen
    /\ rx_frame.raw[PayloadLen + 2] = TxCrc \div 256
    /\ rx_frame.raw[PayloadLen + 3] = TxCrc % 256
    /\ compute_crc(BodyOf(rx_frame.raw)) = CrcOf(rx_frame.raw)
    /\ compute_crc(<<49, 50, 51, 52, 53, 54, 55, 56, 57>>) = 10673

\* C23 witness: a frame with the sync value as protocol id, the escape
\* value as first and the sync value as last payload octet has been
\* received.
C23_Witness ==
  /\ fr_pc = "recv" /\ rx_frame.ok
  /\ tx_id = FRAME_SYNC /\ tx_pay[1] = FRAME_ESC
  /\ tx_pay[PayloadLen] = FRAME_SYNC

\* C24 -- byte stuffing: the frame the encoder puts on the wire begins
\* with the sync value and holds it nowhere else, whatever the protocol id,
\* the payload and the CRC are; no octet value is stuffed to a sequence
\* holding the sync value.
C24_ByteStuffing ==
  fr_pc = "sent" =>
    /\ wire[1] = FRAME_SYNC
    /\ \A i \in 2..Len(wire) : wire[i] # FRAME_SYNC
    /\ \A o \in 0..255 : \A i \in 1..Len(stuff(o)) :
         stuff(o)[i] # FRAME_SYNC

\* C24 witness: a frame is on the wire whose payload ends with the sync
\* value and whose low CRC octet is the sync value.
C24_Witness ==
  /\ fr_pc = "sent"
  /\ tx_pay[PayloadLen] = FRAME_SYNC
  /\ TxCrc % 256 = FRAME_SYNC

\* C25 -- a frame with a bad CRC is dropped: what the receiver hands over
\* is a complete frame whose CRC over id and payload equals the CRC
\* received; a complete frame whose CRC differs is not handed over; and the
\* receiver puts nothing on the wire (the only frame sent is the sender's).
C25_BadCrcDropped ==
  fr_pc \in {"recv", "recv_hit"} =>
    /\ rx_frame.ok =>
         /\ Len(rx_frame.raw) = FrameLen
         /\ compute_crc(BodyOf(rx_frame.raw)) = CrcOf(rx_frame.raw)
         /\ rx_frame.id = rx_frame.raw[1]
         /\ rx_frame.pay = SubSeq(rx_frame.raw, 2, PayloadLen + 1)
    /\ (Len(rx_frame.raw) = FrameLen
          /\ compute_crc(BodyOf(rx_frame.raw)) # CrcOf(rx_frame.raw)) =>
         ~rx_frame.ok
    /\ h_txs = 1

\* C25 witness: a complete frame damaged on the wire has been dropped.
C25_Witness ==
  /\ fr_pc = "recv_hit" /\ ~rx_frame.ok
  /\ Len(rx_frame.raw) = FrameLen

---------------------------------------------------------------------------
\* A run of motor_action that comes before the delay of the step before it
\* has elapsed: fewer than SettleTicks ticks after the last motor-off write
\* or after the last write of the direction relay.
EarlyRun ==
  /\ pc = "motor_run" /\ pc' = "motor_store"
  /\ (h_off_age < SettleTicks \/ h_dir_age < SettleTicks)

\* C26 -- the race on motor_action_delay is harmless: whatever the tick ISR
\* interleaves with trigger_action and with "motor_action_event = 0;
\* motor_action_delay = motor_action ()", a run of motor_action that comes
\* early writes nothing but motor power off (no direction relay, no motor
\* on).
C26_EarlyOnlyOff ==
  [][EarlyRun =>
       \A i \in 1..Len(motor_action.writes) :
          motor_action.writes[i] = "off"]_vars

---------------------------------------------------------------------------
\* A call of trigger_action: from a key handler, from the schedule or from
\* a message.
TriggerStep ==
  \/ pc = "key_s2" /\ pc' = "key_s2_clr"
  \/ pc = "key_s3" /\ pc' = "key_s3_clr"
  \/ /\ pc \in {"second", "msg"}
     /\ <<motor_state, last_action, motor_action_delay>>' #
          <<motor_state, last_action, motor_action_delay>>

MotorOff ==
  /\ motor_state = motor_state_off /\ ~MOTOR_on /\ ~MOTOR_down
  /\ motor_action_delay = 0

\* While the motor is powered the delay is within the travel duration and
\* a motor step is due: the delay is running, the event is pending or the
\* step is being executed.
StepDue ==
  MOTOR_on =>
    /\ motor_action_delay <= TravelTicks
    /\ motor_action_delay = 0 =>
         (motor_action_event \/ pc \in {"motor_run", "motor_store"})

\* C27 (as stated) -- the motor power stays on for at most the travel
\* duration in ticks: every tick that comes while a run is under way is one
\* of the ticks the stored travel delay counts.
C27_OnAtMostTravel ==
  [][(MOTOR_on /\ motor_state \in ReadyStates /\ pc' = pc) =>
       (pc # "motor_store" /\ motor_action_delay > 0)]_vars

\* C27 (amended) -- the motor always returns to off: with the tick and the
\* main loop running, either trigger_action is called again and again or
\* the state machine ends up for good in motor_state_off with the motor
\* power off, the direction relay released and motor_action_delay = 0; and
\* while the motor power is on the delay never exceeds the travel duration
\* and a motor step is due, so that the power goes off with the first motor
\* step after the travel delay has run out.
C27_ReturnsOff ==
  /\ []<><<TriggerStep>>_vars \/ <>[]MotorOff
  /\ []StepDue

\* C27 witness: a full run has ended through its *_ready step and the state
\* machine is back in off with everything released.
C27_Witness == MotorOff /\ h_ran /\ h_ready /\ ~h_cut /\ pc = "wait"

---------------------------------------------------------------------------
\* The flags of shutter_state: bit 7 "motor running", bit 6 "direction up",
\* bit 5 "value valid".
Running  == (shutter_state \div 128) % 2 = 1
DirUp    == (shutter_state \div 64) % 2 = 1
Valid    == (shutter_state \div 32) % 2 = 1

\* C28 -- the status is derived from the motor state: whenever the main
\* loop is about to handle a message (a status query reads shutter_state
\* there), bit 7 is set exactly when the motor power output is on, and with
\* bit 7 set bit 6 is set exactly when the direction relay is released;
\* also in the pre_* states after a trigger has interrupted a run.
C28_StatusDerived ==
  pc = "msg" =>
    /\ Running <=> MOTOR_on
    /\ Running => (DirUp <=> ~MOTOR_down)

---------------------------------------------------------------------------
\* A run of motor_action, and whether it executes a *_ready case.
MotorRunStep == pc = "motor_run" /\ pc' = "motor_store"
ReadyRan ==
  \/ Has(motor_action.ran, motor_state_up_ready)
  \/ Has(motor_action.ran, motor_state_down_ready)

\* C29 -- position validity: shutter_state takes only the values 0x00,
\* 0xC0, 0x80, 0x20 and 0x2F; the validity bit is set only by the *_ready
\* step of a run that had the motor on for the whole travel duration and
\* was not hit by a trigger (0x20 after up, 0x2F after down); while it is
\* set the most recent powered run has ended through its *_ready step
\* uninterrupted; and the step that starts a new run clears it.
C29_PositionValid ==
  [][/\ shutter_state' \in {0, 192, 128, 32, 47}
     /\ (Valid' /\ ~Valid) =>
          /\ MotorRunStep /\ ReadyRan
          /\ MOTOR_on /\ ~h_cut /\ h_on_age = TravelTicks
          /\ shutter_state' = IF MOTOR_down THEN 47 ELSE 32
     /\ Valid' => (h_ready' /\ ~h_cut' /\ ~MOTOR_on')
     /\ (MotorRunStep /\ MOTOR_on' /\ ~MOTOR_on) => ~Valid']_vars

----------------------------------------------------------------------------
\* The key readers (hardware.c 84-104).  KeyReadings is the length of the
\* debounce window ("10 continuous depressed readings"), KeyMask the bits
\* forced to one (0xf800), KeyEdge the value that reports the edge (0xfc00).
\* The macros KEY_S2 and KEY_S3 are true for a depressed key.
KeyReadings == 10
KeyMask     == 63488
KeyEdge     == 64512

\* Mutant: the reader reports every reading that ends a full window of
\* depressed readings.
read_key_level(state, key) ==
  LET s1 == (state * 2) % Word
      s2 == s1 + (IF key THEN 0 ELSE 1)
      s3 == KeyMask + (s2 % (Word - KeyMask))
  IN  [state |-> s3, ret |-> (s3 % (KeyEdge - KeyMask) = 0)]

\* state <<= 1; state |= !KEY; state |= 0xf800; return (state == 0xfc00);
read_key(state, key) ==
  LET s1 == (state * 2) % Word
      s2 == s1 + (IF key THEN 0 ELSE 1)
      s3 == KeyMask + (s2 % (Word - KeyMask))
  IN  [state |-> s3, ret |-> (s3 = KeyEdge)]

\* One call of the reader of key k with the level of the key as the input.
ReadKey(k) ==
  /\ key_sel = k
  /\ \E level \in BOOLEAN :
       LET r == read_key(key_reg[k], level) IN
         /\ key_reg' = [key_reg EXCEPT ![k] = r.state]
         /\ key_ret' = r.ret
         /\ h_dep' = IF level THEN Min(h_dep + 1, KeyReadings + 2) ELSE 0
         /\ h_up' = (h_up \/ ~level)
  /\ UNCHANGED <<key_sel, motorVars, motorHist, timeVars, schedVars,
                 schedHist, clockVars, sensVars, msgVars, loopVars,
                 frameVars, h_weeks, h_trig>>

read_key_s2 == ReadKey("s2")
read_key_s3 == ReadKey("s3")

InitKey ==
  /\ InitMotor /\ InitTime /\ InitSchedHist /\ InitClock /\ InitCalm
  /\ InitKeys /\ key_sel \in Keys
  /\ tx_id = 0 /\ tx_pay = <<>>
  /\ ten_seconds_counter = 0
  /\ booted = TRUE
  /\ schedule_last_tfound = 0
  /\ schedule = [i \in 1..SchedLen |-> IF i = 1 THEN 1 ELSE 0]

NextKey == read_key_s2 \/ read_key_s3

SpecKey == InitKey /\ [][NextKey]_vars

----------------------------------------------------------------------------
\* Vocabulary of C30: the sequence of a triggered direction is in progress
\* (any state but off, the run with motor power on included); the S3 block
\* of main triggers the up key, the S2 block the down key.
SeqUp    == last_action = action_up /\ motor_state # motor_state_off
SeqDown  == last_action = action_down /\ motor_state # motor_state_off
PressUp   == pc = "key_s3" /\ pc' = "key_s3_clr"
PressDown == pc = "key_s2" /\ pc' = "key_s2_clr"

\* C30 -- keys toggle on/off: a *_ready state with motor power on has the
\* direction last triggered; pressing the key of that direction while its
\* sequence is in progress resolves to none, enters pre_off and arms the
\* delay, and the motor step taken from any pre_* state leaves motor power
\* off; pressing the opposite key resolves to the opposite direction and
\* enters its pre_* state.
C30_KeysToggle ==
  [][/\ (RunUnderWay /\ motor_state = motor_state_up_ready)
          => (last_action = action_up /\ ~MOTOR_down)
     /\ (RunUnderWay /\ motor_state = motor_state_down_ready)
          => (last_action = action_down /\ MOTOR_down)
     /\ ((PressUp /\ SeqUp) \/ (PressDown /\ SeqDown))
          => /\ last_action' = action_none
             /\ motor_state' = motor_state_pre_off
             /\ motor_action_delay' = 1
     /\ (PressUp /\ SeqDown)
          => /\ last_action' = action_up
             /\ motor_state' = motor_state_pre_up
             /\ motor_action_delay' = 1
     /\ (PressDown /\ SeqUp)
          => /\ last_action' = action_down
             /\ motor_state' = motor_state_pre_down
             /\ motor_action_delay' = 1
     /\ (MotorRunStep /\ motor_state \in PreStates) => ~MOTOR_on']_vars

\* C30 witness: a run was cut by a trigger that resolved to none and the
\* motor step that followed has switched motor power off.
C30_Witness ==
  /\ h_cut /\ h_ran /\ ~h_ready
  /\ last_action = action_none /\ ~MOTOR_on
  /\ motor_state = motor_state_pre_off2 /\ pc = "motor_store"

----------------------------------------------------------------------------
\* Vocabulary of C31: the assignment that ends the S2 block.
ClearDown == pc = "key_s2_clr" /\ pc' = "key_s3"

\* C31 -- key interlock: when the S2 block runs with the S3 event pending
\* too, the trigger issued is the toggle-down one (it resolves to down or to
\* none), the S2 block ends with both events cleared, and the toggle-up
\* trigger is never issued for an S3 event that was pending when the S2
\* event was handled (h_stale).
C31_KeyInterlock ==
  [][/\ (PressDown /\ key_s3_event)
          => /\ last_action' \in {action_down, action_none}
             /\ motor_state' \in {motor_state_pre_down, motor_state_pre_off}
             /\ last_action' = action_none <=> last_action = action_down
     /\ ClearDown => (~key_s2_event' /\ ~key_s3_event')
     /\ PressUp => ~h_stale]_vars

\* C31 witness: the S2 block has triggered toggle-down from rest with the
\* S3 event pending.
C31_Witness ==
  /\ pc = "key_s2_clr" /\ h_stale /\ key_s3_event
  /\ last_action = action_down /\ motor_state = motor_state_pre_down

----------------------------------------------------------------------------
\* C32 -- key debounce: a call of read_key_s2 / read_key_s3 returns true
\* exactly when its reading is the 10th depressed reading in a row after a
\* released one; so it returns false while the key stays held afterwards,
\* for a press of fewer than 10 depressed readings, and for a key held
\* since the first call after reset.
C32_Debounce == key_ret <=> (h_up /\ h_dep = KeyReadings)

\* C32 witness: the reader of S3 has returned true on the 10th depressed
\* reading.
C32_Witness == key_ret /\ h_dep = KeyReadings /\ key_sel = "s3"

----------------------------------------------------------------------------
\* Vocabulary of C33: the message handled is a valid schedule update / a
\* schedule query; index, time and action byte of an update; the action
\* code of a byte; whether the rounded time with the code fits 16 bits.
IsUpdate(msg) ==
  /\ msg.proto = PROTOCOL_EBUS_H61 /\ msg.cmd = P_H61_SHUTTER
  /\ msg.sub = P_H61_SHUTTER_UPD_SCHEDULE
  /\ msg.d[2] = 0 /\ msg.d[8] = 0 /\ msg.d[9] = 0 /\ msg.d[3] = 1
  /\ msg.d[4] < Len(schedule)
IsQuery(msg) ==
  /\ msg.proto = PROTOCOL_EBUS_H61 /\ msg.cmd = P_H61_SHUTTER
  /\ msg.sub = P_H61_SHUTTER_QRY_SCHEDULE
UpdIndex(msg) == msg.d[4]
UpdTime(msg)  == msg.d[5] * 256 + msg.d[6]
UpdByte(msg)  == msg.d[7]
Minute(t)     == t - (t % 6)
CodeOf(a)     == IF a = 192 THEN 1 ELSE IF a = 128 THEN 5 ELSE 0
SameByte(a)   == IF a \in {192, 128} THEN a ELSE 0
Fits(msg)     == Minute(UpdTime(msg)) + CodeOf(UpdByte(msg)) <= 65535

\* C33 -- schedule update/query round trip: a valid update of index i
\* leaves every other entry unchanged; a schedule query sends one response
\* per table entry in index order; and the query that follows the update
\* reports for index i the time rounded down to the full minute and the
\* same action, whenever the rounded time plus the action code fits 16 bits.
C33_RoundTrip ==
  [][/\ (IsUpdate(h_req') /\ booted)
          => \A j \in 1..Len(schedule) :
               j # UpdIndex(h_req') + 1 => schedule'[j] = schedule[j]
     /\ (IsQuery(h_req') /\ booted)
          => /\ Len(outbox') = Len(schedule)
             /\ \A j \in 1..Len(schedule) : outbox'[j].d[4] = j - 1
             /\ schedule' = schedule
     /\ (IsUpdate(h_req) /\ IsQuery(h_req') /\ Fits(h_req))
          => LET r == outbox'[UpdIndex(h_req) + 1] IN
               /\ r.d[5] * 256 + r.d[6] = Minute(UpdTime(h_req))
               /\ r.d[7] = SameByte(UpdByte(h_req))]_vars

\* C33 witness: the last entry was set to 65535 with pull-up and the query
\* after it has reported 65532 (0xfffc) with 0xC0 for that entry.
C33_Witness ==
  /\ IsQuery(h_req) /\ Len(outbox) = DimSchedule
  /\ outbox[DimSchedule].d[5] = 255 /\ outbox[DimSchedule].d[6] = 252
  /\ outbox[DimSchedule].d[7] = 192
  /\ schedule[DimSchedule] = 65533

----------------------------------------------------------------------------
\* Vocabulary of C34: the TIME handler has just run (the read of the old
\* local time is complete and no tick has come since).
TimeHandled == h_call.kind = "time" /\ rd_val # -1

\* C34 -- every accepted TIME message overwrites the clock with the
\* timestamp it carries and sets time_has_been_set, sends no response, and
\* process_schedule is called from the handler only when the timestamp is
\* greater than the local time, i.e. than a value current_time held while
\* the handler read it.
C34_TimeAccepted ==
  TimeHandled =>
    /\ current_time = h_call.time /\ time_has_been_set
    /\ outbox = <<>>
    /\ h_call.called => \E v \in rd_held : h_call.time > v

----------------------------------------------------------------------------
\* Vocabulary of C35: the event flags; the main loop is about to sleep; a
\* step of the tick; the step of the main loop that tests a flag.
EventFlags ==
  <<key_s2_event, key_s3_event, motor_action_event, sensor_action_event,
    one_second_event>>
NoEvent   == <<FALSE, FALSE, FALSE, FALSE, FALSE>>
Asleep    == pc = "wait" /\ ~wakeup_main
TickStep  == h_ticks' # h_ticks
Tests(at) == pc = at /\ pc' # at

\* C35 -- no lost wake-up: the main loop is never about to sleep with an
\* event flag set; a tick that sets a flag sets wakeup_main with it and
\* leaves a flag that is set as it is (one flag, no count); and every pass
\* of the main loop tests each flag once, in its block, and clears the flag
\* it finds set, so a flag is consumed in the pass under way or the next.
C35_NoLostWakeup ==
  /\ [](Asleep => EventFlags = NoEvent)
  /\ [][TickStep =>
          /\ \A i \in 1..5 : EventFlags[i] => EventFlags'[i]
          /\ EventFlags' # EventFlags => wakeup_main']_vars
  /\ [][/\ Tests("key_s2") => (pc' = "key_s3" /\ ~key_s2_event')
        /\ Tests("key_s3") => (pc' = "motor" /\ ~key_s3_event')
        /\ Tests("motor")  => (pc' = "sensor" /\ ~motor_action_event')
        /\ Tests("sensor") => (pc' = "second" /\ ~sensor_action_event')
        /\ Tests("second") => (pc' = "msg" /\ ~one_second_event')
        /\ Tests("wait")   => (pc' = "key_s2" /\ wakeup_main)]_vars

\* C35 witness: the S2 key was handled in this pass and its event has been
\* raised again by a tick before the pass is over; the main loop will not
\* sleep.
C35_Witness ==
  /\ pc = "msg" /\ key_s2_event /\ wakeup_main
  /\ Has(h_pass, "key_s2") /\ motor_action_event

----------------------------------------------------------------------------
\* Vocabulary of C36: the indices before the first zero entry; the entry at
\* i is the only one in its minute; the entry at i is one the claim is
\* about; every entry is alone in its minute; the step is a periodic
\* evaluation with the clock set; the step ends a week that began with a
\* wrap.
WeekLive ==
  {i \in 1..Len(schedule) : \A j \in 1..i : schedule[j] # 0}
Alone(i) ==
  \A j \in WeekLive \ {i} : EntryTime(schedule[j]) # EntryTime(schedule[i])
Due(i) == i \in WeekLive /\ HasAction(schedule[i]) /\ Alone(i)
AllAlone == \A i \in WeekLive : Alone(i)
PeriodicCall ==
  ten_due /\ ~ten_due' /\ h_call'.called /\ ~h_call'.gated
WeekEnds == current_time' = 0 /\ current_time # 0 /\ h_weeks >= 1
FiresAt(i) ==
  /\ h_call'.tfound = schedule[i] /\ h_call'.fire # "nop"
  /\ ~h_call'.again

\* The periodic evaluation finds the entry at i exactly when it is the
\* evaluation of the entry's minute, and then fires it for the first time
\* in the week; at the end of the week the entry has fired.
OwnMinute ==
  \A i \in WeekLive :
    Due(i) =>
      /\ h_call'.tfound = schedule[i]
           <=> h_call'.time = EntryTime(schedule[i])
      /\ h_call'.time = EntryTime(schedule[i]) => FiresAt(i)
FiredAll == \A i \in WeekLive : Due(i) => schedule[i] \in h_fired

\* C36 as stated -- weekly firing: with the clock set and every tenth
\* second served, each pull-up or pull-down entry that is the only entry in
\* its minute and lies before the first zero entry is fired by the periodic
\* evaluation of its own minute and by no other one, once in every week
\* (the weeks from the first wrap after the clock was set on).
C36_WeeklyFiring ==
  [][/\ (PeriodicCall /\ h_weeks >= 1) => OwnMinute
     /\ WeekEnds => FiredAll]_vars

\* C36 (amended) -- the same for the tables in which every entry before
\* the first zero entry is the only entry in its minute.
C36_WeeklyFiringAlone ==
  [][/\ (PeriodicCall /\ h_weeks >= 1 /\ AllAlone) => OwnMinute
     /\ (WeekEnds /\ AllAlone) => FiredAll]_vars

\* C36 witness: in the week after the first wrap the entry of Monday 00:00
\* has been fired by the evaluation at time 0, the marker holding the entry
\* of the last minute of the week before.
C36_Witness ==
  /\ h_weeks = 1 /\ current_time = 0 /\ AllAlone
  /\ h_call.kind = "periodic" /\ h_call.fire = action_up
  /\ h_call.tfound = 1 /\ schedule_last_tfound = 1
  /\ schedule[1] = WeekLen - 1

---------------------------------------------------------------------------
\* Vocabulary of C37: a step of the tick ISR; the invocation that is the
\* fifth since the last clock increment or since reset; the clock reaches
\* 1000 with this increment.
IsrStep == h_isr' = h_isr + 1
Fifth == (h_isr + 1) % 5 = 0
Reaches1000 == current_clock + 1 >= 1000

\* C37 -- time base: the tick ISR increments current_clock on every fifth
\* invocation only; when current_clock reaches 1000 it is reset to 0 and
\* current_time is incremented, wrapping from 60479 to 0; the one-second
\* event is raised exactly when the new current_clock is a multiple of 100,
\* which is once per 100 clock increments (500 invocations) while no TIME
\* message has changed the clock.
C37_TimeBase ==
  [][IsrStep =>
       IF ~Fifth
         THEN UNCHANGED <<current_clock, current_time, one_second_event>>
         ELSE /\ current_clock' = IF Reaches1000 THEN 0
                                  ELSE current_clock + 1
              /\ current_time' = IF ~Reaches1000 THEN current_time
                                 ELSE IF current_time = WeekLen - 1 THEN 0
                                 ELSE current_time + 1
              /\ one_second_event' =
                   (one_second_event \/ current_clock' % 100 = 0)
              /\ ~time_has_been_set =>
                   (current_clock' % 100 = 0 <=> (h_isr + 1) % 500 = 0)]_vars

\* C37 witness: the clock set to the last minute of the week has rolled over
\* to minute 0, 100 clock increments have followed, and the interrupt that
\* made the last of them has left the one-second event set.
C37_Witness ==
  /\ time_has_been_set /\ current_time = 0
  /\ current_clock = 100 /\ one_second_event
  /\ rd_pc = "idle" /\ rd_val = -1 /\ h_call.kind = "none"
  /\ h_isr % 5 = 0

---------------------------------------------------------------------------
\* Vocabulary of C38: the step is a call of trigger_action with action a;
\* the step is the motor step of the main loop; the action of the last call
\* since the last motor step.
CallStep(a) ==
  Len(h_trig') = Len(h_trig) + 1 /\ h_trig'[Len(h_trig')] = a
InARow(a) == h_trig # <<>> /\ h_trig[Len(h_trig)] = a
MotorStep == motor_action_event /\ ~motor_action_event'
LastCall == TrigCalls[Len(TrigCalls)]

\* C38 -- triggers coalesce: a call of trigger_action with none, up or down
\* that directly follows a call with the same action leaves motor_state,
\* the pending delay and last_action as the first call left them; and when
\* one or more calls have been made since the last motor step, the state
\* the motor step executes is the pre-state of the last call alone.
C38_Coalesce ==
  [][/\ \A a \in PlainActions :
          (CallStep(a) /\ InARow(a)) =>
             UNCHANGED <<motor_state, motor_action_delay, last_action>>
     /\ (MotorStep /\ TrigCalls # <<>>) =>
          /\ motor_state = trigger_state(LastCall)
          /\ Head(motor_action.ran) = trigger_state(LastCall)]_vars

\* C38 witness: up, then down twice in a row, then the tick that raises the
\* motor event: the motor step is due with the state of the last call.
C38_Witness ==
  /\ h_trig = <<action_up, action_down, action_down, "tick">>
  /\ motor_action_event
  /\ motor_state = motor_state_pre_down /\ last_action = action_down

---------------------------------------------------------------------------
\* Vocabulary of C39: the message handled is the reset pattern, a set-debug
\* or a debug query; the messages sent that carry a sender address.
IsReset(msg) ==
  /\ msg.proto = PROTOCOL_EBUS_H61 /\ msg.cmd = P_H61_SHUTTER
  /\ msg.sub = P_H61_SHUTTER_UPD_SCHEDULE
  /\ msg.d[1] = 240 /\ msg.d[3] = 16
  /\ msg.d[4] = 240 /\ msg.d[5] = 240 /\ msg.d[6] = 240 /\ msg.d[7] = 240
IsSetDebug(msg) ==
  msg.proto = PROTOCOL_EBUS_BUSCTL /\ msg.cmd = P_BUSCTL_SET_DEBUG
IsQryDebug(msg) ==
  msg.proto = PROTOCOL_EBUS_BUSCTL /\ msg.cmd = P_BUSCTL_QRY_DEBUG
Answers39 ==
  {k \in 1..Len(outbox') : outbox'[k].proto # PROTOCOL_EBUS_DBGMSG}

\* C39 -- persistent data frame: after startup the schedule table changes
\* only in a step that handles a valid update-schedule command (and then
\* only in the addressed entry) or the reset pattern; the debug flags
\* change only in a step that handles a set-debug command, to the byte it
\* carries; a debug query answers with the debug flags, which is the byte of
\* the set-debug handled just before it; and every answer carries the same
\* node id as its sender.
C39_DataFrame ==
  [][booted =>
       /\ schedule' # schedule =>
            \/ /\ IsUpdate(h_req')
               /\ \A j \in 1..Len(schedule) :
                    j # UpdIndex(h_req') + 1 => schedule'[j] = schedule[j]
            \/ IsReset(h_req')
       /\ debug_flags' # debug_flags => IsSetDebug(h_req')
       /\ IsSetDebug(h_req') => debug_flags' = h_req'.b6
       /\ IsQryDebug(h_req') =>
            /\ Len(outbox') = 1 /\ outbox'[1].b6 = debug_flags
            /\ debug_flags' = debug_flags
       /\ (IsSetDebug(h_req) /\ IsQryDebug(h_req')) =>
            outbox'[1].b6 = h_req.b6
       /\ \A k \in Answers39 : outbox'[k].src = <<1, 17>>]_vars

\* C39 witness: the first and the last entry have been updated, the clock
\* has been set by a TIME message, a pull-up has been triggered, the debug
\* flags have been set to 1, and the debug query has answered 1.
C39_Witness ==
  /\ IsQryDebug(h_req) /\ Len(outbox) = 1 /\ outbox[1].b6 = 1
  /\ debug_flags = 1
  /\ schedule[1] = 2689 /\ schedule[DimSchedule] = 2693
  /\ time_has_been_set /\ last_action = action_up

============================================================================
